---------------------------- MODULE Spec2Model ----------------------------
(***************************************************************************)
(* A model of the fire-box service: the retry engine                       *)
(* (providers/retry.rs), the encrypted store (middleware/store.rs), the    *)
(* profile registry (providers/config.rs), the alias router                *)
(* (middleware/route.rs), the metrics collector (middleware/metrics.rs),   *)
(* the adapters' streams and usage parsing (providers/openai.rs,           *)
(* anthropic.rs, copilot.rs, llamacpp.rs, dashscope.rs), the Copilot token *)
(* cache and the OAuth device flows (providers/copilot.rs, dashscope.rs),  *)
(* the legacy migration (providers/config.rs), the service's main          *)
(* (main.rs), the Anthropic request body (providers/anthropic.rs), the     *)
(* Qwen token refresh (providers/dashscope.rs), the llama.cpp health check *)
(* (providers/llamacpp.rs), a caller's failover loop and concurrent        *)
(* toggle_model calls (middleware/route.rs).                               *)
(*                                                                         *)
(* Each subsystem has its own specification (SpecRetry, SpecRoute,         *)
(* SpecStore, SpecRegistry, SpecMetrics, SpecStream, SpecUsage, SpecToken, *)
(* SpecFlow, SpecMigrate, SpecMain, SpecPrepare, SpecRefresh, SpecHealth,  *)
(* SpecMetadata, SpecFailover, SpecKeyring, SpecToggle); a subsystem's     *)
(* actions leave the variables of the other subsystems unchanged.          *)
(***************************************************************************)
EXTENDS Integers, Sequences, FiniteSets, TLC

VARIABLES
    \* ---- retry engine: one call of with_retry (retry.rs:31-71)
    config,      \* the RetryConfig passed in
    retry_pc,    \* "call" (about to await f()), "sleep" (about to await sleep), "done"
    attempt,     \* local `attempt`
    backoff,     \* local `backoff`, in milliseconds
    outcomes,    \* the results f() has returned so far, in order (history)
    sleeps,      \* the durations slept so far, in order (history)
    result,      \* what with_retry returned; None until it returns
    \* ---- encrypted store (store.rs)
    store_file,  \* the file fire-box-store.enc: absent, empty, or a ciphertext
    keyring_key, \* the credential-store entry (fire-box, encryption-key)
    keys_made,   \* how many keys generate_key_seed has drawn (history)
    \* ---- threads calling store::update / store::load concurrently
    th_pc,       \* per thread: "idle", "u_load", "u_create", "u_write"
    th_mut,      \* per thread: the mutator of the update in progress
    th_buf,      \* per thread: the ciphertext the update is about to write
    upd_done,    \* per thread: updates completed (history)
    last_mut,    \* per thread: the mutator of its last completed update (history)
    last_load,   \* per thread: result of its last load() and what was on disk (history)
    clean,       \* per thread: no other thread touched the file since its last update
    stable,      \* the StoreData of the last completed file write (history)
    data0,       \* the StoreData on disk at start (history)
    \* ---- profile registry (config.rs), one sequential caller
    reg_expect,  \* per profile id: the config last stored and not removed (history)
    reg_call,    \* the last registry call and what it returned (history)
    reg_owed,    \* the profile ids configured and still to be added to the index
    paired,      \* only paired configure/add and remove_provider were used so far
    \* ---- alias router (route.rs)
    route_data,  \* ROUTE_DATA: None before init(), else [rules, enabled_models]
    route_lock,  \* the RwLock around ROUTE_DATA
    route_call,  \* the last resolve_alias / get_next_target call and its result
    \* ---- metrics collector (metrics.rs) and the threads recording into it
    collector,        \* the global AtomicU64 counters of one MetricsCollector
    provider_metrics, \* the breakdown map: key "<provider>:<model>" -> counters
    m_pc,        \* per thread: "idle", "counted", "clone", "check", "write", "drop"
    m_call,      \* per thread: the record call in progress
    m_local,     \* per thread: the local `metrics` of a breakdown call
    m_done,      \* per call: how many times it has returned (history)
    timers,      \* per RequestTimer: its state, `recorded`, and what it recorded (history)
    \* ---- one stream returned by complete_stream
    sse_adapter,  \* the adapter that made the stream
    frames,       \* the lines the backend sent, in order (history)
    transport,    \* what bytes_stream() has still to deliver: chunks, then its end
    emitted,      \* the items the stream has yielded so far (history, first MaxItems)
    stream_ended, \* the stream has returned None
    \* ---- one parse_response call
    usage_adapter, \* the adapter parsing
    backend_usage, \* the "usage" member of the backend's response
    response,      \* the usage of the CompletionResponse built, once parsed
    \* ---- the Copilot API token of one CopilotProvider and its callers
    cached_token, \* the Mutex's content: None or [token, expires_at]
    token_lock,   \* the holder of the Mutex guard, or "free"
    ck_pc,        \* per caller: "idle", "wait", "locked", "exchange", "done"
    ck_ret,       \* per caller: what ensure_copilot_token returned (history)
    now,          \* the system clock, seconds
    exchanges,    \* the answers of the exchanges made, in order (history)
    \* ---- one device flow (Copilot or Qwen)
    flow,         \* "copilot" or "qwen"
    flow_pc,      \* "issued", "check", "poll", "done"
    flow_now,     \* the clock, seconds
    device_code,  \* the device-code response: issued_at, expires_in, interval
    deadline,     \* local `deadline`
    delay,        \* local `delay`
    poll_times,   \* the times at which a poll request was sent (history)
    poll_answers, \* the answers to the poll requests, in order (history)
    flow_result,  \* what the loop returned; None while it runs
    \* ---- legacy migration (config.rs:48-93)
    legacy_keyring, \* the two legacy keyring entries: copilot, dashscope
    mig_runs,       \* the StoreData at the start and after each run (history)
    \* ---- the service process (main.rs:212-259)
    main_pc,        \* "idle", "start", "logged", "spawned", "test", "sleep", "leave", "exited"
    shutdown_flag,  \* Shutdown.flag
    sig_tasks,      \* per signal, its handler task: "none", "spawned", "waiting", "woken", "done", "failed"
    signals_sent,   \* the signals delivered so far, in order (history)
    exit_status,    \* None while the process runs, then its exit status
    main_trace,     \* the steps main has taken, in order (history)
    \* ---- one AnthropicProvider::prepare_request call
    prep_request,   \* the CompletionRequest
    prep_body,      \* the JSON body built; None before the call
    \* ---- one QwenOAuthFlow::refresh call
    credentials,    \* the caller's OAuthCredentials
    token_endpoint, \* what the token endpoint answers to a refresh request
    refresh_now,    \* the system clock, milliseconds
    refresh_sent,   \* the number of requests sent to the token endpoint
    refresh_ret,    \* what refresh returned; None before the call
    \* ---- one LlamaCppProvider::health_check call
    health_server,  \* what the server answers on /health and on /v1/models
    health_sent,    \* the paths requested, in order (history)
    health_ret,     \* what health_check returned; None before the call
    \* ---- a caller's failover loop over one alias
    fo_rule,        \* the rule stored for the alias
    fo_pc,          \* "resolve", "next", "done"
    fo_tried,       \* the targets handed to the caller, in order (history)
    \* ---- two threads calling toggle_model on one provider
    tg_call,        \* per thread: the model and the flag of its call
    tg_pc,          \* per thread: "idle", "load", "save", "persist", "returned", "blocked", "panicked"
    tg_current      \* per thread: the local `current`

retryVars == <<config, retry_pc, attempt, backoff, outcomes, sleeps, result>>
storeVars == <<store_file, keyring_key, keys_made>>
threadVars == <<th_pc, th_mut, th_buf, upd_done, last_mut, last_load, clean, stable, data0>>
regVars == <<reg_expect, reg_call, reg_owed, paired>>
routeVars == <<route_data, route_lock, route_call>>
metricsVars == <<collector, provider_metrics, m_pc, m_call, m_local, m_done, timers>>
streamVars == <<sse_adapter, frames, transport, emitted, stream_ended>>
usageVars == <<usage_adapter, backend_usage, response>>
tokenVars == <<cached_token, token_lock, ck_pc, ck_ret, now, exchanges>>
flowVars == <<flow, flow_pc, flow_now, device_code, deadline, delay, poll_times,
              poll_answers, flow_result>>
migVars == <<legacy_keyring, mig_runs>>
mainVars == <<main_pc, shutdown_flag, sig_tasks, signals_sent, exit_status, main_trace>>
prepVars == <<prep_request, prep_body>>
refreshVars == <<credentials, token_endpoint, refresh_now, refresh_sent, refresh_ret>>
healthVars == <<health_server, health_sent, health_ret>>
failoverVars == <<fo_rule, fo_pc, fo_tried>>
toggleVars == <<tg_call, tg_pc, tg_current>>
lateVars == <<healthVars, failoverVars, toggleVars>>
launchVars == <<migVars, mainVars, prepVars, refreshVars, lateVars>>
adapterVars == <<streamVars, usageVars, tokenVars, flowVars, launchVars>>

vars == <<retryVars, storeVars, threadVars, regVars, routeVars, metricsVars, adapterVars>>

None == "none"

Min(a, b) == IF a <= b THEN a ELSE b

Last(s) == s[Len(s)]

(***************************************************************************)
(* Strings.  TLC strings support Len, SubSeq and \o, so str::contains and  *)
(* str::to_lowercase are computed on the characters.                       *)
(***************************************************************************)
UpperChars == <<"A","B","C","D","E","F","G","H","I","J","K","L","M",
                "N","O","P","Q","R","S","T","U","V","W","X","Y","Z">>
LowerChars == <<"a","b","c","d","e","f","g","h","i","j","k","l","m",
                "n","o","p","q","r","s","t","u","v","w","x","y","z">>

LowerChar(c) ==
    IF \E i \in 1..Len(UpperChars) : UpperChars[i] = c
    THEN LowerChars[CHOOSE i \in 1..Len(UpperChars) : UpperChars[i] = c]
    ELSE c

RECURSIVE to_lowercase(_)
to_lowercase(s) ==
    IF Len(s) = 0 THEN ""
    ELSE LowerChar(SubSeq(s, 1, 1)) \o to_lowercase(SubSeq(s, 2, Len(s)))

contains(s, pat) ==
    \E i \in 1..(Len(s) - Len(pat) + 1) : SubSeq(s, i, i + Len(pat) - 1) = pat

(***************************************************************************)
(* JSON values, as serde_json writes and reads them.  An object is a       *)
(* sequence of <<key, value>> members; a Rust String holding a JSON text   *)
(* is modelled by the members of that text.                                *)
(***************************************************************************)
JNull == [t |-> "null"]
JStr(s) == [t |-> "str", v |-> s]
JNum(n) == [t |-> "num", n |-> n]
JArr(a) == [t |-> "arr", a |-> a]
JObj(o) == [t |-> "obj", o |-> o]

HasKey(members, k) == \E i \in 1..Len(members) : members[i][1] = k
\* the value of key k; the last member wins when a key repeats
Get(members, k) ==
    LET i == CHOOSE i \in 1..Len(members) :
                 /\ members[i][1] = k
                 /\ \A j \in (i + 1)..Len(members) : members[j][1] # k
    IN members[i][2]

RECURSIVE SetToSeq(_)
SetToSeq(S) ==
    IF S = {} THEN <<>>
    ELSE LET x == CHOOSE x \in S : TRUE IN <<x>> \o SetToSeq(S \ {x})

\* Option<T>: <<>> is None and <<x>> is Some(x)
NoneOpt == <<>>
Some(x) == <<x>>

\* members with the None-valued optional members left out (skip_serializing_if)
RECURSIVE SkipNull(_)
SkipNull(members) ==
    IF members = <<>> THEN <<>>
    ELSE IF members[1][2] = JNull THEN SkipNull(Tail(members))
         ELSE <<members[1]>> \o SkipNull(Tail(members))

OptStr(o) == IF o = NoneOpt THEN JNull ELSE JStr(o[1])
OptNum(o) == IF o = NoneOpt THEN JNull ELSE JNum(o[1])
\* an Option field: a missing member and null both read as None
FieldOptStr(members, k) ==
    IF HasKey(members, k) /\ Get(members, k).t = "str"
    THEN Some(Get(members, k).v) ELSE NoneOpt
FieldOptNum(members, k) ==
    IF HasKey(members, k) /\ Get(members, k).t = "num"
    THEN Some(Get(members, k).n) ELSE NoneOpt
HasStr(members, k) == HasKey(members, k) /\ Get(members, k).t = "str"

(***************************************************************************)
(* ProviderConfig (config.rs:184-197) and its JSON form.                   *)
(***************************************************************************)
\* config.rs:169-171
default_context_size == 4096

OpenAi(api_key, base_url) ==
    [variant |-> "OpenAi", api_key |-> api_key, base_url |-> base_url]
Anthropic(api_key, base_url) ==
    [variant |-> "Anthropic", api_key |-> api_key, base_url |-> base_url]
Copilot(oauth_token, endpoint) ==
    [variant |-> "Copilot", oauth_token |-> oauth_token, endpoint |-> endpoint]
DashScope(access_token, refresh_token, resource_url, expiry_date, base_url) ==
    [variant |-> "DashScope", access_token |-> access_token,
     refresh_token |-> refresh_token, resource_url |-> resource_url,
     expiry_date |-> expiry_date, base_url |-> base_url]
LlamaCpp(model_path, context_size, gpu_layers, threads) ==
    [variant |-> "LlamaCpp", model_path |-> model_path,
     context_size |-> context_size, gpu_layers |-> gpu_layers, threads |-> threads]

\* config.rs:205-213
type_slug(c) ==
    CASE c.variant = "OpenAi" -> "openai"
      [] c.variant = "Anthropic" -> "anthropic"
      [] c.variant = "Copilot" -> "copilot"
      [] c.variant = "DashScope" -> "dashscope"
      [] c.variant = "LlamaCpp" -> "llamacpp"

\* serde(tag = "provider", rename_all = "snake_case")
VariantTag(variant) ==
    CASE variant = "OpenAi" -> "open_ai"
      [] variant = "Anthropic" -> "anthropic"
      [] variant = "Copilot" -> "copilot"
      [] variant = "DashScope" -> "dash_scope"
      [] variant = "LlamaCpp" -> "llama_cpp"

\* the members of the variant's struct (derives of config.rs:102-167)
ConfigFields(c) ==
    CASE c.variant \in {"OpenAi", "Anthropic"} ->
            << <<"api_key", JStr(c.api_key)>>, <<"base_url", OptStr(c.base_url)>> >>
      [] c.variant = "Copilot" ->
            << <<"oauth_token", OptStr(c.oauth_token)>>,
               <<"endpoint", OptStr(c.endpoint)>> >>
      [] c.variant = "DashScope" ->
            SkipNull(<< <<"access_token", OptStr(c.access_token)>>,
                        <<"refresh_token", OptStr(c.refresh_token)>>,
                        <<"resource_url", OptStr(c.resource_url)>>,
                        <<"expiry_date", OptNum(c.expiry_date)>>,
                        <<"base_url", OptStr(c.base_url)>> >>)
      [] c.variant = "LlamaCpp" ->
            << <<"model_path", JStr(c.model_path)>>,
               <<"context_size", JNum(c.context_size)>>,
               <<"gpu_layers", OptNum(c.gpu_layers)>>,
               <<"threads", OptNum(c.threads)>> >>

to_json_slug_tag(c) ==
    << <<"provider", JStr(type_slug(c))>> >> \o ConfigFields(c)

\* config.rs:346-348: the tag member, then the variant's members
to_json(c) ==
    << <<"provider", JStr(VariantTag(c.variant))>> >> \o ConfigFields(c)

ParseErr == [ok |-> FALSE]
ParseOk(x) == [ok |-> TRUE, val |-> x]

\* config.rs:351-353: the tag selects the variant; a missing or unknown tag and
\* a missing required field are errors.
from_json(j) ==
    IF ~HasStr(j, "provider") THEN ParseErr
    ELSE LET tag == Get(j, "provider").v IN
    CASE tag = "open_ai" ->
            IF HasStr(j, "api_key")
            THEN ParseOk(OpenAi(Get(j, "api_key").v, FieldOptStr(j, "base_url")))
            ELSE ParseErr
      [] tag = "anthropic" ->
            IF HasStr(j, "api_key")
            THEN ParseOk(Anthropic(Get(j, "api_key").v, FieldOptStr(j, "base_url")))
            ELSE ParseErr
      [] tag = "copilot" ->
            ParseOk(Copilot(FieldOptStr(j, "oauth_token"), FieldOptStr(j, "endpoint")))
      [] tag = "dash_scope" ->
            ParseOk(DashScope(FieldOptStr(j, "access_token"),
                              FieldOptStr(j, "refresh_token"),
                              FieldOptStr(j, "resource_url"),
                              FieldOptNum(j, "expiry_date"),
                              FieldOptStr(j, "base_url")))
      [] tag = "llama_cpp" ->
            IF HasStr(j, "model_path")
            THEN ParseOk(LlamaCpp(Get(j, "model_path").v,
                                  IF HasKey(j, "context_size")
                                  THEN Get(j, "context_size").n
                                  ELSE default_context_size,
                                  FieldOptNum(j, "gpu_layers"),
                                  FieldOptNum(j, "threads")))
            ELSE ParseErr
      [] OTHER -> ParseErr


(***************************************************************************)
(* StoreData (store.rs:94-108), its JSON form, and the file encryption.    *)
(***************************************************************************)
EmptyMap == <<>>

\* StoreData::default()
EmptyStore ==
    [provider_index |-> <<>>, providers |-> EmptyMap, display_names |-> EmptyMap,
     route_rules |-> EmptyMap, enabled_models |-> EmptyMap]

StrArr(seq) == JArr([i \in 1..Len(seq) |-> JStr(seq[i])])
ArrStr(j) == [i \in 1..Len(j.a) |-> j.a[i].v]

\* a HashMap<String, String> as a JSON object
StrMapObj(m) ==
    LET ks == SetToSeq(DOMAIN m) IN
    JObj([i \in 1..Len(ks) |-> <<ks[i], JStr(m[ks[i]])>>])
\* a HashMap<String, Vec<String>> as a JSON object
ListMapObj(m) ==
    LET ks == SetToSeq(DOMAIN m) IN
    JObj([i \in 1..Len(ks) |-> <<ks[i], StrArr(m[ks[i]])>>])
ObjStrMap(j) ==
    [k \in {j.o[i][1] : i \in 1..Len(j.o)} |-> Get(j.o, k).v]
ObjListMap(j) ==
    [k \in {j.o[i][1] : i \in 1..Len(j.o)} |-> ArrStr(Get(j.o, k))]

SerializeNoDisplayNames(d) ==
    << <<"provider_index", StrArr(d.provider_index)>>,
       <<"providers", StrMapObj(d.providers)>>,
       <<"display_names", StrMapObj(EmptyMap)>>,
       <<"route_rules", StrMapObj(d.route_rules)>>,
       <<"enabled_models", ListMapObj(d.enabled_models)>> >>

\* store.rs:132  serde_json::to_vec(&data)
Serialize(d) ==
    << <<"provider_index", StrArr(d.provider_index)>>,
       <<"providers", StrMapObj(d.providers)>>,
       <<"display_names", StrMapObj(d.display_names)>>,
       <<"route_rules", StrMapObj(d.route_rules)>>,
       <<"enabled_models", ListMapObj(d.enabled_models)>> >>

\* store.rs:114  serde_json::from_slice(&data): route_rules and enabled_models
\* default to empty (serde(default)), the other three members are required.
Deserialize(doc) ==
    IF /\ HasKey(doc, "provider_index") /\ Get(doc, "provider_index").t = "arr"
       /\ HasKey(doc, "providers") /\ Get(doc, "providers").t = "obj"
       /\ HasKey(doc, "display_names") /\ Get(doc, "display_names").t = "obj"
    THEN ParseOk(
        [provider_index |-> ArrStr(Get(doc, "provider_index")),
         providers |-> ObjStrMap(Get(doc, "providers")),
         display_names |-> ObjStrMap(Get(doc, "display_names")),
         route_rules |-> IF HasKey(doc, "route_rules")
                         THEN ObjStrMap(Get(doc, "route_rules")) ELSE EmptyMap,
         enabled_models |-> IF HasKey(doc, "enabled_models")
                            THEN ObjListMap(Get(doc, "enabled_models")) ELSE EmptyMap])
    ELSE ParseErr

\* store.rs:60  the all-zero nonce
NonceBytes == 0

NoFile == [kind |-> "absent"]
\* the file after File::create truncated it and before write_all wrote it
EmptyFile == [kind |-> "empty"]
\* AES-256-GCM: the ciphertext opens under the key and nonce that sealed it
Encrypt(key, nonce, plaintext) ==
    [kind |-> "data", key |-> key, nonce |-> nonce, sealed |-> plaintext]

\* store.rs:75-91  load_and_decrypt, given the key: reading an absent file and
\* decrypting an empty file or under another key are errors.
load_and_decrypt(file, key) ==
    IF file.kind = "data" /\ file.key = key /\ file.nonce = NonceBytes
    THEN ParseOk(file.sealed) ELSE ParseErr

\* store.rs:19-23  generate_key_seed: 32 random bytes, a key no earlier call
\* drew; made is the number of keys drawn so far
generate_key_seed(made) == made + 1

\* store.rs:26-41  get_or_create_key: the stored key, or a fresh key that is
\* written to the credential store.
get_or_create_key(kr, made) == IF kr # NoneOpt THEN kr[1] ELSE generate_key_seed(made)

\* the number of keys drawn after get_or_create_key
KeysMadeAfter(kr, made) == IF kr # NoneOpt THEN made ELSE made + 1

\* store.rs:111-122  load, given the key: an unreadable file is an empty store,
\* a readable file that does not parse is an error.
load(file, key) ==
    LET plain == load_and_decrypt(file, key) IN
    IF plain.ok THEN Deserialize(plain.val) ELSE ParseOk(EmptyStore)

\* store.rs:53-72  encrypt_and_save up to the write: the bytes for the file
Seal(data, key) == Encrypt(key, NonceBytes, Serialize(data))

MapPut(m, k, v) == [x \in DOMAIN m \cup {k} |-> IF x = k THEN v ELSE m[x]]
MapDel(m, k) == [x \in DOMAIN m \ {k} |-> m[x]]
InSeq(seq, x) == \E i \in 1..Len(seq) : seq[i] = x
Retain(seq, x) == SelectSeq(seq, LAMBDA y : y # x)

(***************************************************************************)
(* The mutators passed to store::update.                                   *)
(***************************************************************************)
SetData(d) == [op |-> "set", data |-> d]
\* config.rs:424-426
InsertProvider(p, json) == [op |-> "insert_provider", id |-> p, json |-> json]
\* config.rs:457-459
RemoveProviderEntry(p) == [op |-> "remove_provider", id |-> p]
\* config.rs:32-36
PushIndex(p) == [op |-> "push_index", id |-> p]
\* config.rs:42-44
RetainIndex(p) == [op |-> "retain_index", id |-> p]
NoMut == [op |-> "none"]

\* config.rs:458  d.providers.remove(&profile)
RemoveProviderMut(d, p) == [d EXCEPT !.providers = MapDel(@, p)]

\* config.rs:33-35  push unless already present
PushIndexMut(d, p) ==
    IF InSeq(d.provider_index, p) THEN d
    ELSE [d EXCEPT !.provider_index = Append(@, p)]

\* store.rs:130  f(&mut data)
Apply(m, d) ==
    CASE m.op = "set" -> m.data
      [] m.op = "insert_provider" -> [d EXCEPT !.providers = MapPut(@, m.id, m.json)]
      [] m.op = "remove_provider" -> RemoveProviderMut(d, m.id)
      [] m.op = "push_index" -> PushIndexMut(d, m.id)
      [] m.op = "retain_index" -> [d EXCEPT !.provider_index = Retain(@, m.id)]

\* store.rs:125-136  update, from load to the bytes it hands to fs::write
\* (defined when load succeeds)
UpdateBytes(file, key, m) == Seal(Apply(m, load(file, key).val), key)

\* the StoreData a load() would return now, without creating a key
Stored(file, kr) ==
    IF kr = NoneOpt THEN EmptyStore ELSE load(file, kr[1]).val

(***************************************************************************)
(* Route rules (route.rs:14-26) and the two lookups.                       *)
(***************************************************************************)
Target(p, m) == [provider_id |-> p, model_id |-> m]
Rule(alias, targets) == [alias |-> alias, targets |-> targets]

TargetObj(t) ==
    JObj(<< <<"provider_id", JStr(t.provider_id)>>, <<"model_id", JStr(t.model_id)>> >>)

\* route.rs:229  serde_json::to_string(rule)
rule_to_json(rule) ==
    << <<"alias", JStr(rule.alias)>>,
       <<"targets", JArr([i \in 1..Len(rule.targets) |-> TargetObj(rule.targets[i])])>> >>

TargetOk(j) == j.t = "obj" /\ HasStr(j.o, "provider_id") /\ HasStr(j.o, "model_id")

\* route.rs:56  serde_json::from_str::<RouteRule>(&json)
rule_from_json(j) ==
    IF /\ HasStr(j, "alias")
       /\ HasKey(j, "targets") /\ Get(j, "targets").t = "arr"
       /\ \A i \in 1..Len(Get(j, "targets").a) : TargetOk(Get(j, "targets").a[i])
    THEN LET ts == Get(j, "targets").a IN
         ParseOk(Rule(Get(j, "alias").v,
                      [i \in 1..Len(ts) |->
                          Target(Get(ts[i].o, "provider_id").v, Get(ts[i].o, "model_id").v)]))
    ELSE ParseErr

\* route.rs:54-69  the RouteData init() builds: the rules that parse, by alias
RouteDataOf(store) ==
    [rules |-> [a \in {k \in DOMAIN store.route_rules :
                          rule_from_json(store.route_rules[k]).ok}
                  |-> rule_from_json(store.route_rules[a]).val],
     enabled_models |-> store.enabled_models]

RetOk(v) == [kind |-> "ok", val |-> v]
RetErr == [kind |-> "err"]
RetSome(v) == [kind |-> "some", val |-> v]
RetNone == [kind |-> "none"]
RetPanic == [kind |-> "panic"]
\* the call does not return: it blocks forever or unwinds
RetNever == [kind |-> "never"]

\* route.rs:92-96: Ok(data.rules.get(alias).cloned())
get_route_rules(rules, alias) ==
    IF alias \in DOMAIN rules THEN RetSome(rules[alias]) ELSE RetNone

\* route.rs:165-172: the stored list for the provider, None without an entry
load_enabled_models(em, provider_id) ==
    IF provider_id \in DOMAIN em THEN Some(em[provider_id]) ELSE NoneOpt

is_model_enabled_empty_is_all(em, provider_id, model_id) ==
    LET l == load_enabled_models(em, provider_id) IN
    IF l = NoneOpt \/ l[1] = <<>> THEN TRUE ELSE InSeq(l[1], model_id)

\* route.rs:185-190
is_model_enabled(em, provider_id, model_id) ==
    LET l == load_enabled_models(em, provider_id) IN
    IF l = NoneOpt THEN TRUE ELSE InSeq(l[1], model_id)

\* route.rs:199-206: the list toggle_model hands to save_enabled_models
toggle_list(em, provider_id, model_id, enabled, all_models) ==
    LET l == load_enabled_models(em, provider_id)
        current == IF l = NoneOpt THEN all_models ELSE l[1]
    IN IF enabled
       THEN IF InSeq(current, model_id) THEN current ELSE Append(current, model_id)
       ELSE Retain(current, model_id)

resolve_alias_default_on_empty(rules, alias) ==
    IF alias \in DOMAIN rules /\ rules[alias].targets # <<>>
    THEN RetOk(<<rules[alias].targets[1].provider_id, rules[alias].targets[1].model_id>>)
    ELSE RetOk(<<"default", alias>>)

\* route.rs:117-135
resolve_alias(rules, alias) ==
    IF alias \in DOMAIN rules
    THEN IF rules[alias].targets = <<>>
         THEN RetErr
         ELSE RetOk(<<rules[alias].targets[1].provider_id,
                      rules[alias].targets[1].model_id>>)
    ELSE RetOk(<<"default", alias>>)

\* Iterator::position: the index of the first element that matches, 0 for None
Position(targets, p) ==
    IF \E i \in 1..Len(targets) : targets[i].provider_id = p
    THEN CHOOSE i \in 1..Len(targets) :
            /\ targets[i].provider_id = p
            /\ \A j \in 1..(i - 1) : targets[j].provider_id # p
    ELSE 0

get_next_target_last_match(rules, alias, p) ==
    IF alias \in DOMAIN rules
    THEN LET ts == rules[alias].targets
             idx == IF \E i \in 1..Len(ts) : ts[i].provider_id = p
                    THEN CHOOSE i \in 1..Len(ts) :
                            /\ ts[i].provider_id = p
                            /\ \A j \in (i + 1)..Len(ts) : ts[j].provider_id # p
                    ELSE 0
         IN IF idx # 0 /\ idx + 1 <= Len(ts)
            THEN RetSome(<<ts[idx + 1].provider_id, ts[idx + 1].model_id>>)
            ELSE RetNone
    ELSE RetNone

get_next_target_skip_same(rules, alias, p) ==
    IF alias \in DOMAIN rules
    THEN LET ts == rules[alias].targets
             idx == Position(ts, p)
             later == {i \in (idx + 1)..Len(ts) : ts[i].provider_id # p}
         IN IF idx # 0 /\ later # {}
            THEN LET n == CHOOSE i \in later : \A j \in later : i <= j
                 IN RetSome(<<ts[n].provider_id, ts[n].model_id>>)
            ELSE RetNone
    ELSE RetNone

\* route.rs:139-158 (indices from 1: idx + 1 < len reads idx + 1 <= Len)
get_next_target(rules, alias, p) ==
    IF alias \in DOMAIN rules
    THEN LET ts == rules[alias].targets
             idx == Position(ts, p)
         IN IF idx # 0 /\ idx + 1 <= Len(ts)
            THEN RetSome(<<ts[idx + 1].provider_id, ts[idx + 1].model_id>>)
            ELSE RetNone
    ELSE RetNone

(***************************************************************************)
(* The inputs the model draws from.                                        *)
(***************************************************************************)
ProfileIds == {"p1", "p2"}

CfgOpenAi == OpenAi("sk-test", Some("https://custom.openai.com/v1"))
CfgAnthropic == Anthropic("sk-ant", NoneOpt)
CfgCopilotPending == Copilot(NoneOpt, NoneOpt)
CfgDashScope == DashScope(Some("at-abc"), Some("rt-xyz"), NoneOpt, Some(9999), NoneOpt)
CfgLlamaCpp == LlamaCpp("/models/qwen.gguf", default_context_size, NoneOpt, Some(8))

ProviderConfigs == {CfgOpenAi, CfgCopilotPending, CfgDashScope, CfgLlamaCpp}

RuleProd ==
    Rule("prod", << Target("openai", "gpt-4"), Target("anthropic", "claude-3"),
                    Target("dashscope", "qwen-max") >>)
RuleEmpty == Rule("empty", <<>>)
RuleDup ==
    Rule("dup", << Target("openai", "gpt-4"), Target("openai", "gpt-3.5"),
                   Target("anthropic", "claude-3") >>)
\* a rule whose first target is the pass-through pair of its own alias
RuleSelf == Rule("gpt-4", << Target("default", "gpt-4"), Target("openai", "gpt-4") >>)

\* a stored rule text that is no RouteRule
BadRuleJson == << <<"alias", JStr("prod")>> >>

Aliases == {"prod", "empty", "dup", "gpt-4", "other"}
RouteProviders == {"openai", "anthropic", "dashscope", "default"}
TargetLists == {RuleProd.targets, <<>>}
\* providers and models of the enablement map; "other" is in no stored list
EnableProviders == {"p1", "p2", "p3"}
ModelIds == {"gpt-4", "gpt-3.5", "other"}
AllModels == <<"gpt-4", "gpt-3.5">>
\* ids a caller may ask about: stored lists are finite, so some id is in none
QueryModels == ModelIds \cup {"unlisted"}

Store1 ==
    [provider_index |-> <<"p1", "p2">>,
     providers |-> [p \in {"p1", "p2"} |->
                      IF p = "p1" THEN to_json(CfgOpenAi) ELSE to_json(CfgDashScope)],
     display_names |-> [p \in {"p1"} |-> "My OpenAI"],
     route_rules |-> [a \in {"prod", "empty"} |->
                        IF a = "prod" THEN rule_to_json(RuleProd)
                        ELSE rule_to_json(RuleEmpty)],
     enabled_models |-> [p \in {"p1"} |-> <<"gpt-4", "gpt-3.5">>]]

Store2 ==
    [provider_index |-> <<"p2", "p1">>,
     providers |-> [p \in {"p2"} |-> to_json(CfgLlamaCpp)],
     display_names |-> EmptyMap,
     route_rules |-> [a \in {"dup", "gpt-4"} |->
                        IF a = "dup" THEN rule_to_json(RuleDup)
                        ELSE rule_to_json(RuleSelf)],
     enabled_models |-> [p \in {"p2"} |-> <<>>]]

Store3 ==
    [EmptyStore EXCEPT !.route_rules =
        [a \in {"prod", "dup"} |->
            IF a = "prod" THEN BadRuleJson ELSE rule_to_json(RuleDup)]]

StoreSamples == {Store1, Store2, Store3}

(***************************************************************************)
(* The retry engine.                                                       *)
(***************************************************************************)
MaxRetriesBound == 3

\* RetryConfig::default(): initial_backoff 100 ms, max_backoff 10 s, multiplier 2.0
DefaultInitialBackoffMs == 100
DefaultMaxBackoffMs == 10000
DefaultMultiplier == 2
\* a second, small cap so that the cap is reached within MaxRetriesBound retries
SmallMaxBackoffMs == 300
\* a third, below initial_backoff: the first sleep is not capped
TinyMaxBackoffMs == 50

RetryConfigs ==
    [max_retries : 0..MaxRetriesBound,
     initial_backoff : {DefaultInitialBackoffMs},
     max_backoff : {TinyMaxBackoffMs, SmallMaxBackoffMs, DefaultMaxBackoffMs},
     multiplier : {DefaultMultiplier}]

\* The network-error words and the HTTP statuses is_retryable looks for.
NetworkWords == {"connection", "timeout", "dns", "network"}
RetryableHttp == {"http 429", "http 500", "http 502", "http 503", "http 504"}

is_retryable(msg) ==
    LET error_str == to_lowercase(msg) IN
    \/ \E w \in NetworkWords : contains(error_str, w)
    \/ \E h \in RetryableHttp : contains(error_str, h)

\* The status line reqwest's StatusCode displays: the code and its reason.
StatusText(status) ==
    CASE status = 400 -> "400 Bad Request"
      [] status = 401 -> "401 Unauthorized"
      [] status = 404 -> "404 Not Found"
      [] status = 429 -> "429 Too Many Requests"
      [] status = 500 -> "500 Internal Server Error"
      [] status = 503 -> "503 Service Unavailable"

\* openai.rs:186  bail!("OpenAI API error: HTTP {} - {}", status, error_text)
OpenAiHttpError(status, error_text) ==
    "OpenAI API error: HTTP " \o StatusText(status) \o " - " \o error_text

Ok(v) == [ok |-> TRUE, status |-> 0, msg |-> "", val |-> v]
\* an error; status is the HTTP status the backend answered with (0: none)
Err(status, msg) == [ok |-> FALSE, status |-> status, msg |-> msg, val |-> 0]

\* What one invocation of the wrapped operation may return.
Outcomes ==
    { Ok(42),
      Err(503, "HTTP 503 Service unavailable"),
      Err(400, "HTTP 400 Bad request"),
      Err(0, "Connection refused"),
      Err(0, "invalid response body"),
      Err(429, OpenAiHttpError(429, "slow down")),
      Err(401, OpenAiHttpError(401, "invalid api key")),
      Err(400, OpenAiHttpError(400, "request timeout must be positive")) }

BudgetExhaustedOffByOne(att, max) == att >= max

\* retry.rs:44  if attempt > config.max_retries
BudgetExhausted(att, max) == att > max

ReturnsErrBudgetOnly(att, cfg, o) == BudgetExhausted(att, cfg.max_retries)

\* retry.rs:44-51: the two early returns of the Err arm; att is the attempt
\* count after the increment of line 43.
ReturnsErr(att, cfg, o) ==
    BudgetExhausted(att, cfg.max_retries) \/ ~is_retryable(o.msg)

NextBackoffUncapped(b, cfg) == b * cfg.multiplier

\* retry.rs:64-67  backoff = min(backoff * multiplier, max_backoff)
NextBackoff(b, cfg) == Min(b * cfg.multiplier, cfg.max_backoff)

(***************************************************************************)
(* Quiescent values: a subsystem that a specification does not run.        *)
(***************************************************************************)
Threads == {"t1", "t2"}
NoLoad == [done |-> FALSE]

RetryIdle ==
    /\ config = [max_retries |-> 0, initial_backoff |-> 0, max_backoff |-> 0,
                 multiplier |-> 0]
    /\ retry_pc = "idle"
    /\ attempt = 0
    /\ backoff = 0
    /\ outcomes = <<>>
    /\ sleeps = <<>>
    /\ result = None

ThreadsIdle ==
    /\ th_pc = [t \in Threads |-> "idle"]
    /\ th_mut = [t \in Threads |-> NoMut]
    /\ th_buf = [t \in Threads |-> NoFile]
    /\ upd_done = [t \in Threads |-> 0]
    /\ last_mut = [t \in Threads |-> NoMut]
    /\ last_load = [t \in Threads |-> NoLoad]
    /\ clean = [t \in Threads |-> FALSE]
    /\ stable = EmptyStore
    /\ data0 = EmptyStore

RegIdle ==
    /\ reg_expect = [p \in ProfileIds |-> NoneOpt]
    /\ reg_call = [fn |-> "none"]
    /\ reg_owed = {}
    /\ paired = TRUE

RouteIdle ==
    /\ route_data = NoneOpt
    /\ route_lock = "free"
    /\ route_call = [fn |-> "none"]

(***************************************************************************)
(* The metrics collector (middleware/metrics.rs).  Every counter is an     *)
(* AtomicU64 updated with fetch_add(_, Relaxed); a record call is a         *)
(* sequence of such updates, and calls of different threads interleave      *)
(* between them.                                                            *)
(***************************************************************************)
MaxRecords == 2
MaxTimers == 2
TimerIds == 1..MaxTimers

\* MetricsCollector::default()
ZeroCollector ==
    [requests_total |-> 0, requests_success |-> 0, requests_failed |-> 0,
     prompt_tokens |-> 0, completion_tokens |-> 0, latency_sum_ms |-> 0,
     latency_count |-> 0, cost_total |-> 0]

\* ProviderMetricsInner::default()
ZeroInner ==
    [requests_total |-> 0, requests_failed |-> 0, prompt_tokens |-> 0,
     completion_tokens |-> 0, cost_total |-> 0]

\* `(cost_cents * 100.0) as u64`, the cost given in thousandths of a cent:
\* the cast truncates
cost_int(cost_milli) == cost_milli \div 10

\* format!("{}:{}", provider_id, model_id.unwrap_or(""))
BreakdownKey(provider_id, model_id) ==
    provider_id \o ":" \o (IF model_id = NoneOpt THEN "" ELSE model_id[1])

\* a record call: the method, its arguments, and (for a call made by a
\* RequestTimer) the timer and the method of the timer that made it
RecordCall(name, fn, p, m, pt, ct, lat, cost) ==
    [name |-> name, fn |-> fn, provider_id |-> p, model_id |-> m,
     prompt_tokens |-> pt, completion_tokens |-> ct, latency_ms |-> lat,
     cost_milli |-> cost, timer |-> 0, via |-> ""]
NoCall == RecordCall("none", "", "", NoneOpt, 0, 0, 0, 0)

MetricCalls ==
    { RecordCall("s", "record_success", "", NoneOpt, 100, 50, 200, 50),
      RecordCall("f", "record_failure", "", NoneOpt, 0, 0, 50, 0),
      RecordCall("sb", "record_success_with_breakdown", "openai", Some("gpt-4"),
                 100, 50, 200, 50),
      RecordCall("fb", "record_failure_with_breakdown", "openai", Some("gpt-4"),
                 0, 0, 50, 0),
      RecordCall("sb2", "record_success_with_breakdown", "anthropic", NoneOpt,
                 150, 75, 250, 75) }
CallNames == {c.name : c \in MetricCalls}
CallNamed(n) == CHOOSE c \in MetricCalls : c.name = n

IsSuccess(c) == c.fn \in {"record_success", "record_success_with_breakdown"}
IsBreakdown(c) ==
    c.fn \in {"record_success_with_breakdown", "record_failure_with_breakdown"}
KeyOf(c) == BreakdownKey(c.provider_id, c.model_id)

\* the record call a RequestTimer makes: success(prompt, completion, cost)
\* calls record_success, failure() and drop call record_failure, each with
\* latency = start.elapsed()
TimerCallOf(id, via) ==
    [ (IF via = "success"
       THEN RecordCall("timer", "record_success", "", NoneOpt, 10, 5, 30, 20)
       ELSE RecordCall("timer", "record_failure", "", NoneOpt, 0, 0, 30, 0))
      EXCEPT !.timer = id, !.via = via ]

\* metrics.rs:92 and 148: the first fetch_add of record_success / record_failure
CountRequest(c) == [c EXCEPT !.requests_total = @ + 1]

record_failure_rest_no_failed(c, call) ==
    [c EXCEPT !.latency_sum_ms = @ + call.latency_ms, !.latency_count = @ + 1]

\* metrics.rs:149-152: the remaining fetch_adds of record_failure
record_failure_rest(c, call) ==
    [c EXCEPT !.requests_failed = @ + 1,
              !.latency_sum_ms = @ + call.latency_ms,
              !.latency_count = @ + 1]

\* metrics.rs:93-103: the remaining fetch_adds of record_success
record_success_rest(c, call) ==
    [c EXCEPT !.requests_success = @ + 1,
              !.prompt_tokens = @ + call.prompt_tokens,
              !.completion_tokens = @ + call.completion_tokens,
              !.latency_sum_ms = @ + call.latency_ms,
              !.latency_count = @ + 1,
              !.cost_total = @ + cost_int(call.cost_milli)]

\* metrics.rs:121-127 and 168-174: .get(&key).cloned().unwrap_or_default();
\* the clone holds new atomics with the values read
ClonedEntry(pm, key) == IF key \in DOMAIN pm THEN pm[key] ELSE ZeroInner

\* metrics.rs:129-137 and 176-177: the fetch_adds on the local `metrics`
BumpLocal(m, call) ==
    IF IsSuccess(call)
    THEN [m EXCEPT !.requests_total = @ + 1,
                   !.prompt_tokens = @ + call.prompt_tokens,
                   !.completion_tokens = @ + call.completion_tokens,
                   !.cost_total = @ + cost_int(call.cost_milli)]
    ELSE [m EXCEPT !.requests_total = @ + 1, !.requests_failed = @ + 1]

DropRecordsAlways(recorded) == TRUE

\* metrics.rs:287-295: Drop for RequestTimer records a failure unless recorded
DropRecords(recorded) == ~recorded

NewTimer == [state |-> "none", recorded |-> FALSE, how |-> "none",
             successes |-> 0, failures |-> 0]

MetricsIdle ==
    /\ collector = ZeroCollector
    /\ provider_metrics = EmptyMap
    /\ m_pc = [t \in Threads |-> "idle"]
    /\ m_call = [t \in Threads |-> NoCall]
    /\ m_local = [t \in Threads |-> ZeroInner]
    /\ m_done = [n \in CallNames |-> 0]
    /\ timers = [i \in TimerIds |-> NewTimer]

(***************************************************************************)
(* Streaming completion (providers/openai.rs:221-279; copilot.rs:437-496   *)
(* and llamacpp.rs:349-408 are the same code; anthropic.rs:238-312 differs *)
(* in how a line is read).  The stream is stream::unfold over the          *)
(* response's bytes_stream(): each poll runs the closure once.             *)
(***************************************************************************)
MaxItems == 6

\* StreamEvent::Delta / StreamEvent::Done as stream values, and a stream error
Delta(c) == [kind |-> "delta", content |-> c]
Done == [kind |-> "done", content |-> ""]
StreamErr(m) == [kind |-> "error", content |-> m]
Skip == [kind |-> "skip", content |-> ""]
Terminal(e) == e.kind \in {"done", "error"}

\* A line of the response: its prefix and what follows the prefix, which is
\* the text [DONE], text that is no JSON, or a JSON value.
DoneMarker == [kind |-> "done_marker"]
Invalid == [kind |-> "invalid"]
\* an OpenAI chunk object: choices[0].delta.content and choices[0].finish_reason
ChunkJson(content, finish_reason) ==
    [kind |-> "json", type |-> NoneOpt,
     choices |-> << [delta |-> [content |-> content], finish_reason |-> finish_reason] >>,
     text |-> NoneOpt, message |-> NoneOpt]
\* an Anthropic event object: type, delta.text, error.message
EventJson(type, text, message) ==
    [kind |-> "json", type |-> Some(type), choices |-> <<>>,
     text |-> text, message |-> message]
DataLine(payload) == [prefix |-> "data: ", payload |-> payload]
OtherLine == [prefix |-> "event: ", payload |-> Invalid]

\* a data line cut in two by a chunk boundary: the first piece still starts
\* with "data: " and carries truncated text, the second has no prefix
SplitHead == DataLine(Invalid)
SplitTail == [prefix |-> "", payload |-> Invalid]

\* openai.rs:229-271: what one line makes the closure return
OpenAiLineEvent(line) ==
    IF line.prefix # "data: " THEN Skip
    ELSE IF line.payload = DoneMarker THEN Done
    ELSE IF line.payload.kind = "invalid" THEN StreamErr("Failed to parse SSE")
    ELSE IF line.payload.choices = <<>> THEN Skip
    ELSE LET choice == line.payload.choices[1] IN
         IF choice.delta.content # NoneOpt /\ choice.delta.content[1] # ""
         THEN Delta(choice.delta.content[1])
         ELSE IF choice.finish_reason # NoneOpt THEN Done
         ELSE Skip

\* anthropic.rs:246-303
AnthropicLineEvent(line) ==
    IF line.prefix # "data: " THEN Skip
    ELSE IF line.payload = DoneMarker THEN Done
    ELSE IF line.payload.kind = "invalid" THEN StreamErr("Failed to parse SSE")
    ELSE IF line.payload.type = Some("content_block_delta")
         THEN IF line.payload.text # NoneOpt /\ line.payload.text[1] # ""
              THEN Delta(line.payload.text[1]) ELSE Skip
    ELSE IF line.payload.type = Some("message_stop") THEN Done
    ELSE IF line.payload.type = Some("error")
         THEN StreamErr("Anthropic error: " \o
                        (IF line.payload.message = NoneOpt THEN "Unknown error"
                         ELSE line.payload.message[1]))
    ELSE Skip

LineEvent(adapter, line) ==
    IF adapter = "anthropic" THEN AnthropicLineEvent(line) ELSE OpenAiLineEvent(line)

\* the `for line in text.lines()` loop: it returns at the first line that
\* makes an item; the lines after it are not looked at again
RECURSIVE FirstEvent(_, _)
FirstEvent(adapter, lines) ==
    IF lines = <<>> THEN Skip
    ELSE LET e == LineEvent(adapter, lines[1]) IN
         IF e.kind # "skip" THEN e ELSE FirstEvent(adapter, Tail(lines))

\* a transport item: a chunk of lines, or an error of the byte stream
Chunk(lines) == [ok |-> TRUE, lines |-> lines]
TransportError == [ok |-> FALSE, lines |-> <<>>]

\* openai.rs:224-278: one run of the unfold closure over the rest of the
\* transport: `some` says whether it returned Some(item), `rest` is what the
\* transport still holds.  An exhausted transport gives the synthesized Done.
RECURSIVE PollStream(_, _)
PollStream(adapter, tr) ==
    IF tr = <<>> THEN [some |-> TRUE, item |-> Done, rest |-> <<>>]
    ELSE IF ~tr[1].ok
         THEN [some |-> TRUE, item |-> StreamErr("Stream error"), rest |-> Tail(tr)]
    ELSE LET e == FirstEvent(adapter, tr[1].lines) IN
         IF e.kind # "skip" THEN [some |-> TRUE, item |-> e, rest |-> Tail(tr)]
         ELSE PollStream(adapter, Tail(tr))

\* every way to cut a sequence of lines into consecutive non-empty chunks
RECURSIVE Groupings(_)
Groupings(lines) ==
    IF lines = <<>> THEN { <<>> }
    ELSE UNION { { <<Chunk(SubSeq(lines, 1, k))>> \o g :
                   g \in Groupings(SubSeq(lines, k + 1, Len(lines))) } :
                 k \in 1..Len(lines) }

\* the lines with a chunk boundary inside line i
SplitAt(lines, i) ==
    << Chunk(SubSeq(lines, 1, i - 1) \o <<SplitHead>>),
       Chunk(<<SplitTail>> \o SubSeq(lines, i + 1, Len(lines))) >>

Chunkings(lines) == Groupings(lines) \cup {SplitAt(lines, i) : i \in 1..Len(lines)}

StreamAdapters == {"openai", "anthropic"}

\* what a backend sends; a well-formed sequence is data frames with JSON
\* payloads closed by a terminator
WellFormedFrames(adapter) ==
    IF adapter = "anthropic"
    THEN { << DataLine(EventJson("content_block_delta", Some("a"), NoneOpt)),
              DataLine(EventJson("content_block_delta", Some("b"), NoneOpt)),
              DataLine(EventJson("message_stop", NoneOpt, NoneOpt)) >>,
           << DataLine(EventJson("ping", NoneOpt, NoneOpt)),
              DataLine(EventJson("content_block_delta", Some("a"), NoneOpt)),
              DataLine(EventJson("message_stop", NoneOpt, NoneOpt)) >> }
    ELSE { << DataLine(ChunkJson(Some("a"), NoneOpt)),
              DataLine(ChunkJson(Some("b"), NoneOpt)),
              DataLine(DoneMarker) >>,
           << DataLine(ChunkJson(Some(""), NoneOpt)),
              DataLine(ChunkJson(Some("a"), NoneOpt)),
              DataLine(ChunkJson(NoneOpt, Some("stop"))),
              DataLine(DoneMarker) >>,
           << DataLine(DoneMarker) >> }

FrameSeqs(adapter) ==
    WellFormedFrames(adapter)
    \cup { <<>>,
           << OtherLine, DataLine(Invalid) >>,
           IF adapter = "anthropic"
           THEN << DataLine(EventJson("error", NoneOpt, Some("overloaded"))) >>
           ELSE << DataLine(ChunkJson(Some("a"), NoneOpt)) >> }

StreamIdle ==
    /\ sse_adapter = "none"
    /\ frames = <<>>
    /\ transport = <<>>
    /\ emitted = <<>>
    /\ stream_ended = TRUE

(***************************************************************************)
(* Usage of a CompletionResponse, as each adapter's parse_response builds  *)
(* it from the backend's JSON (`as_u64().unwrap_or(0) as u32` per field).  *)
(***************************************************************************)
\* the "usage" member of a backend response: absent, null, or an object whose
\* token members are absent (NoneOpt) or numbers.  `prompt` and `completion`
\* stand for prompt_tokens / completion_tokens, which Anthropic and
\* DashScope call input_tokens / output_tokens.
BackendUsage(present, prompt, completion, total) ==
    [present |-> present, prompt |-> prompt, completion |-> completion,
     total |-> total]

Usage(p, c, t) == [prompt_tokens |-> p, completion_tokens |-> c, total_tokens |-> t]

\* .as_u64().unwrap_or(0) / Option::unwrap_or(0)
OrZero(field) == IF field = NoneOpt THEN 0 ELSE field[1]

\* openai.rs:139-148: usage when the member is present and not null
openai_usage(u) ==
    IF u.present = "object"
    THEN Some(Usage(OrZero(u.prompt), OrZero(u.completion), OrZero(u.total)))
    ELSE NoneOpt

\* llamacpp.rs:280-287: json.get("usage").map(..); a null member is Some too
llamacpp_usage(u) ==
    IF u.present = "absent" THEN NoneOpt
    ELSE IF u.present = "null" THEN Some(Usage(0, 0, 0))
    ELSE Some(Usage(OrZero(u.prompt), OrZero(u.completion), OrZero(u.total)))

\* anthropic.rs:146-151: total is input_tokens + output_tokens
anthropic_usage(u) ==
    IF u.present = "absent" THEN NoneOpt
    ELSE IF u.present = "null" THEN Some(Usage(0, 0, 0))
    ELSE Some(Usage(OrZero(u.prompt), OrZero(u.completion),
                    OrZero(u.prompt) + OrZero(u.completion)))

\* dashscope.rs:713-717: native.usage.map(..) over Option<NativeUsage>
dashscope_usage(u) ==
    IF u.present # "object" THEN NoneOpt
    ELSE Some(Usage(OrZero(u.prompt), OrZero(u.completion),
                    OrZero(u.prompt) + OrZero(u.completion)))

parse_usage(adapter, u) ==
    CASE adapter = "openai" -> openai_usage(u)
      [] adapter = "llamacpp" -> llamacpp_usage(u)
      [] adapter = "anthropic" -> anthropic_usage(u)
      [] adapter = "dashscope" -> dashscope_usage(u)

UsageAdapters == {"openai", "llamacpp", "anthropic", "dashscope"}
TokenFields == {NoneOpt, Some(0), Some(5), Some(7)}
TotalFields == {NoneOpt, Some(0), Some(12), Some(14)}
BackendUsages ==
    { BackendUsage("absent", NoneOpt, NoneOpt, NoneOpt),
      BackendUsage("null", NoneOpt, NoneOpt, NoneOpt) }
    \cup { BackendUsage("object", p, c, t) :
             p \in TokenFields, c \in TokenFields, t \in TotalFields }

Unparsed == [parsed |-> FALSE, usage |-> NoneOpt]

UsageIdle ==
    /\ usage_adapter = "none"
    /\ backend_usage = BackendUsage("absent", NoneOpt, NoneOpt, NoneOpt)
    /\ response = Unparsed

(***************************************************************************)
(* The Copilot API token of one CopilotProvider (providers/copilot.rs):    *)
(* cached_token is a tokio Mutex<Option<CachedToken>>, and                  *)
(* ensure_copilot_token holds its guard from the check to the return.       *)
(***************************************************************************)
MaxNow == 90
TickSecs == 30
RefreshMarginSecs == 60

CachedToken(token, expires_at) == [token |-> token, expires_at |-> expires_at]

TokenValidNever(cached, t) == FALSE
TokenValidNoMargin(cached, t) == cached # NoneOpt /\ cached[1].expires_at > t

\* copilot.rs:342-351: a cached token that does not expire within 60 seconds
TokenValid(cached, t) ==
    cached # NoneOpt /\ cached[1].expires_at > t + RefreshMarginSecs

\* what exchange_copilot_token (copilot.rs:259-281) can return at time t: the
\* n-th token with its expiry, or an error
ExchangeResults(n, t) ==
    { [ok |-> TRUE, token |-> n, expires_at |-> t + life] : life \in {60, 1800} }
    \cup { [ok |-> FALSE, token |-> 0, expires_at |-> 0] }

\* checked, seen and checked_at record the cache and the clock at the test of
\* copilot.rs:344-351; exchanged records that the call sent an exchange
NoReturn ==
    [returned |-> FALSE, ok |-> FALSE, token |-> 0, waited |-> FALSE,
     checked |-> FALSE, seen |-> NoneOpt, checked_at |-> 0, exchanged |-> FALSE]

TokenIdle ==
    /\ cached_token = NoneOpt
    /\ token_lock = "free"
    /\ ck_pc = [t \in Threads |-> "idle"]
    /\ ck_ret = [t \in Threads |-> NoReturn]
    /\ now = 0
    /\ exchanges = <<>>

(***************************************************************************)
(* The device flows: CopilotProvider::poll_for_token (copilot.rs:206-256)  *)
(* and QwenOAuthFlow::wait_for_token (dashscope.rs:326-393).               *)
(***************************************************************************)
MaxFlowNow == 30
SlowDownSecs == 5

DeviceFlows == {"copilot", "qwen"}
\* expires_in and interval of the device-code response, in seconds
ExpiresIns == {5, 10}
Intervals == {5}

\* answers of the token endpoint to one poll
PollResponse(access_token, error, status, interval) ==
    [access_token |-> access_token, error |-> error, status |-> status,
     interval |-> interval]
ErrorAnswer(e) == PollResponse(NoneOpt, Some(e), NoneOpt, NoneOpt)
PollAnswers ==
    { PollResponse(Some("tok"), NoneOpt, NoneOpt, NoneOpt),
      PollResponse(Some("tok"), Some("authorization_pending"), NoneOpt, NoneOpt),
      PollResponse(Some(""), Some("authorization_pending"), NoneOpt, NoneOpt),
      ErrorAnswer("authorization_pending"),
      ErrorAnswer("slow_down"),
      PollResponse(NoneOpt, Some("slow_down"), NoneOpt, Some(2 * SlowDownSecs)),
      ErrorAnswer("expired_token"),
      ErrorAnswer("access_denied"),
      ErrorAnswer("invalid_grant"),
      PollResponse(NoneOpt, NoneOpt, Some("pending"), NoneOpt),
      PollResponse(NoneOpt, Some("access_denied"), Some("pending"), NoneOpt),
      PollResponse(NoneOpt, NoneOpt, NoneOpt, NoneOpt) }

\* copilot.rs:237-254: what the loop does with one answer
copilot_poll(r) ==
    IF r.access_token # NoneOpt THEN "success"
    ELSE IF r.error = Some("authorization_pending") THEN "continue"
    ELSE IF r.error = Some("slow_down") THEN "slow_down"
    ELSE "abort"

qwen_poll_no_status(r) ==
    IF r.access_token # NoneOpt /\ r.access_token[1] # "" THEN "success"
    ELSE IF r.error = Some("authorization_pending") THEN "continue"
    ELSE IF r.error = Some("slow_down") THEN "slow_down"
    ELSE "abort"

\* dashscope.rs:354-390: an empty access_token counts as none; without an
\* error member, status "pending" polls again
qwen_poll(r) ==
    IF r.access_token # NoneOpt /\ r.access_token[1] # "" THEN "success"
    ELSE IF r.error = Some("authorization_pending") THEN "continue"
    ELSE IF r.error = Some("slow_down") THEN "slow_down"
    ELSE IF r.error # NoneOpt THEN "abort"
    ELSE IF r.status = Some("pending") THEN "continue"
    ELSE "abort"

PollOutcome(f, r) == IF f = "copilot" THEN copilot_poll(r) ELSE qwen_poll(r)

\* copilot.rs:244 adds poll.interval.unwrap_or(5); dashscope.rs:376 adds 5
SlowDownBy(f, answer) ==
    IF f = "copilot" /\ answer.interval # NoneOpt THEN answer.interval[1]
    ELSE SlowDownSecs

FlowIdle ==
    /\ flow = "none"
    /\ flow_pc = "idle"
    /\ flow_now = 0
    /\ device_code = [issued_at |-> 0, expires_in |-> 0, interval |-> 0]
    /\ deadline = 0
    /\ delay = 0
    /\ poll_times = <<>>
    /\ poll_answers = <<>>
    /\ flow_result = None

Signals == {"SIGINT", "SIGTERM"}

MigIdle == legacy_keyring = [copilot |-> NoneOpt, dashscope |-> NoneOpt] /\ mig_runs = <<>>
MainIdle ==
    /\ main_pc = "idle"
    /\ shutdown_flag = FALSE
    /\ sig_tasks = [s \in Signals |-> "none"]
    /\ signals_sent = <<>>
    /\ exit_status = NoneOpt
    /\ main_trace = <<>>
PrepIdle ==
    /\ prep_request = [model |-> "", messages |-> <<>>, max_tokens |-> NoneOpt,
                       temperature |-> NoneOpt]
    /\ prep_body = NoneOpt
NoCredentials ==
    [access_token |-> "", refresh_token |-> NoneOpt, resource_url |-> NoneOpt,
     expiry_date |-> NoneOpt]
RefreshIdle ==
    /\ credentials = NoCredentials
    /\ token_endpoint = [status |-> 0]
    /\ refresh_now = 0
    /\ refresh_sent = 0
    /\ refresh_ret = NoneOpt
HealthIdle ==
    /\ health_server = [health |-> "none", models |-> "none"]
    /\ health_sent = <<>>
    /\ health_ret = NoneOpt
FailoverIdle ==
    /\ fo_rule = [alias |-> "", targets |-> <<>>]
    /\ fo_pc = "idle"
    /\ fo_tried = <<>>
ToggleIdle ==
    /\ tg_call = [t \in Threads |-> [model |-> "", enabled |-> FALSE]]
    /\ tg_pc = [t \in Threads |-> "idle"]
    /\ tg_current = [t \in Threads |-> <<>>]
LateIdle == HealthIdle /\ FailoverIdle /\ ToggleIdle
LaunchIdle == MigIdle /\ MainIdle /\ PrepIdle /\ RefreshIdle /\ LateIdle

AdaptersIdle == StreamIdle /\ UsageIdle /\ TokenIdle /\ FlowIdle /\ LaunchIdle

\* first run (no key, no file), or a file written under a stored key
StoreFresh == keyring_key = NoneOpt /\ keys_made = 0 /\ store_file = NoFile
StoreHolding(d) ==
    keyring_key = Some(generate_key_seed(0)) /\ keys_made = 1
    /\ store_file = Seal(d, generate_key_seed(0))

(***************************************************************************)
(* One call of with_retry.                                                 *)
(***************************************************************************)
InitRetry ==
    /\ config \in RetryConfigs
    /\ retry_pc = "call"
    /\ attempt = 0
    /\ backoff = config.initial_backoff
    /\ outcomes = <<>>
    /\ sleeps = <<>>
    /\ result = None
    /\ StoreFresh /\ ThreadsIdle /\ RegIdle /\ RouteIdle
    /\ MetricsIdle /\ AdaptersIdle

\* retry.rs:40-52: f().await returns o; Ok returns, Err counts the attempt and
\* returns when the budget is used up or the error is not retryable.
Invoke(o) ==
    /\ retry_pc = "call"
    /\ outcomes' = Append(outcomes, o)
    /\ IF o.ok
       THEN /\ result' = o
            /\ retry_pc' = "done"
            /\ attempt' = attempt
       ELSE /\ attempt' = attempt + 1
            /\ IF ReturnsErr(attempt + 1, config, o)
               THEN result' = o /\ retry_pc' = "done"
               ELSE result' = result /\ retry_pc' = "sleep"
    /\ UNCHANGED <<config, backoff, sleeps>>
    /\ UNCHANGED <<storeVars, threadVars, regVars, routeVars, metricsVars, adapterVars>>

\* retry.rs:61-67: sleep(backoff).await, then the capped exponential step.
Sleep ==
    /\ retry_pc = "sleep"
    /\ sleeps' = Append(sleeps, backoff)
    /\ backoff' = NextBackoff(backoff, config)
    /\ retry_pc' = "call"
    /\ UNCHANGED <<config, attempt, outcomes, result>>
    /\ UNCHANGED <<storeVars, threadVars, regVars, routeVars, metricsVars, adapterVars>>

NextRetry ==
    \/ \E o \in Outcomes : Invoke(o)
    \/ Sleep

SpecRetry == InitRetry /\ [][NextRetry]_vars

(***************************************************************************)
(* Threads calling store::update and store::load with no lock between      *)
(* them.  update is three steps: load, apply and encrypt; File::create,    *)
(* which truncates the file; write_all, which writes the bytes.            *)
(***************************************************************************)
MaxUpdates == 1

StoreMutators ==
    { SetData(Store1), SetData(Store2),
      InsertProvider("p1", to_json(CfgAnthropic)),
      PushIndex("p1"),
      RemoveProviderEntry("p2") }

InitStore ==
    /\ StoreFresh \/ StoreHolding(Store1)
    /\ th_pc = [t \in Threads |-> "idle"]
    /\ th_mut = [t \in Threads |-> NoMut]
    /\ th_buf = [t \in Threads |-> NoFile]
    /\ upd_done = [t \in Threads |-> 0]
    /\ last_mut = [t \in Threads |-> NoMut]
    /\ last_load = [t \in Threads |-> NoLoad]
    /\ clean = [t \in Threads |-> FALSE]
    /\ stable = Stored(store_file, keyring_key)
    /\ data0 = Stored(store_file, keyring_key)
    /\ RetryIdle /\ RegIdle /\ RouteIdle
    /\ MetricsIdle /\ AdaptersIdle

\* the StoreData of a sealed file
DataOf(buf) == Deserialize(buf.sealed).val

\* what a complete file may hold while updates are in flight: the last
\* completed write, or the data of a write that has started
Complete ==
    {stable} \cup {DataOf(th_buf[t]) : t \in {u \in Threads : th_pc[u] = "u_write"}}

\* store.rs:129-133 up to the fs::write call
UpdateLoad(t, m) ==
    /\ th_pc[t] = "idle"
    /\ upd_done[t] < MaxUpdates
    /\ LET key == get_or_create_key(keyring_key, keys_made) IN
       /\ load(store_file, key).ok
       /\ keyring_key' = Some(key)
       /\ keys_made' = KeysMadeAfter(keyring_key, keys_made)
       /\ th_buf' = [th_buf EXCEPT ![t] = UpdateBytes(store_file, key, m)]
    /\ th_mut' = [th_mut EXCEPT ![t] = m]
    /\ th_pc' = [th_pc EXCEPT ![t] = "u_create"]
    /\ last_load' = [last_load EXCEPT ![t] = NoLoad]
    /\ UNCHANGED <<store_file, upd_done, last_mut, clean, stable, data0>>
    /\ UNCHANGED <<retryVars, regVars, routeVars, metricsVars, adapterVars>>

\* store.rs:69  fs::write, first half: File::create truncates the file
UpdateCreate(t) ==
    /\ th_pc[t] = "u_create"
    /\ store_file' = EmptyFile
    /\ th_pc' = [th_pc EXCEPT ![t] = "u_write"]
    /\ clean' = [u \in Threads |-> FALSE]
    /\ UNCHANGED <<keyring_key, keys_made, th_mut, th_buf, upd_done, last_mut,
                   last_load, stable, data0>>
    /\ UNCHANGED <<retryVars, regVars, routeVars, metricsVars, adapterVars>>

\* store.rs:69  fs::write, second half: write_all; update returns Ok
UpdateWrite(t) ==
    /\ th_pc[t] = "u_write"
    /\ store_file' = th_buf[t]
    /\ th_pc' = [th_pc EXCEPT ![t] = "idle"]
    /\ th_mut' = [th_mut EXCEPT ![t] = NoMut]
    /\ th_buf' = [th_buf EXCEPT ![t] = NoFile]
    /\ upd_done' = [upd_done EXCEPT ![t] = @ + 1]
    /\ last_mut' = [last_mut EXCEPT ![t] = th_mut[t]]
    /\ clean' = [u \in Threads |-> u = t]
    /\ stable' = DataOf(th_buf[t])
    /\ UNCHANGED <<keyring_key, keys_made, last_load, data0>>
    /\ UNCHANGED <<retryVars, regVars, routeVars, metricsVars, adapterVars>>

\* store.rs:111-122  load() by a thread that is not inside update
Load(t) ==
    /\ th_pc[t] = "idle"
    /\ LET key == get_or_create_key(keyring_key, keys_made)
           r == load(store_file, key)
       IN /\ keyring_key' = Some(key)
          /\ keys_made' = KeysMadeAfter(keyring_key, keys_made)
          /\ last_load' = [last_load EXCEPT ![t] =
                              [done |-> TRUE, ok |-> r.ok,
                               ret |-> IF r.ok THEN r.val ELSE EmptyStore,
                               complete |-> Complete]]
    /\ UNCHANGED <<store_file, th_pc, th_mut, th_buf, upd_done, last_mut, clean,
                   stable, data0>>
    /\ UNCHANGED <<retryVars, regVars, routeVars, metricsVars, adapterVars>>

NextStore ==
    \/ \E t \in Threads, m \in StoreMutators : UpdateLoad(t, m)
    \/ \E t \in Threads : UpdateCreate(t)
    \/ \E t \in Threads : UpdateWrite(t)
    \/ \E t \in Threads : Load(t)

SpecStore == InitStore /\ [][NextStore]_vars

(***************************************************************************)
(* The profile registry, called by one caller at a time: every call runs   *)
(* store::update or store::load to completion.                             *)
(***************************************************************************)
InitRegistry ==
    /\ StoreFresh
    /\ RegIdle
    /\ RetryIdle /\ ThreadsIdle /\ RouteIdle
    /\ MetricsIdle /\ AdaptersIdle

\* store.rs:125-136  update(f) run to completion
RunUpdate(m) ==
    LET key == get_or_create_key(keyring_key, keys_made) IN
    /\ load(store_file, key).ok
    /\ keyring_key' = Some(key)
    /\ keys_made' = KeysMadeAfter(keyring_key, keys_made)
    /\ store_file' = UpdateBytes(store_file, key, m)

\* config.rs:421-428
ConfigureProvider(p, c) ==
    /\ RunUpdate(InsertProvider(p, to_json(c)))
    /\ reg_expect' = [reg_expect EXCEPT ![p] =
                         Some([cfg |-> c, overwrote |-> reg_expect[p] # NoneOpt])]
    /\ reg_owed' = reg_owed \cup {p}
    /\ reg_call' = [fn |-> "configure_provider", id |-> p]
    /\ UNCHANGED paired
    /\ UNCHANGED <<retryVars, threadVars, routeVars, metricsVars, adapterVars>>

\* config.rs:31-38
AddToProviderIndex(p) ==
    /\ RunUpdate(PushIndex(p))
    /\ reg_owed' = reg_owed \ {p}
    /\ paired' = (paired /\ p \in reg_owed)
    /\ reg_call' = [fn |-> "add_to_provider_index", id |-> p]
    /\ UNCHANGED reg_expect
    /\ UNCHANGED <<retryVars, threadVars, routeVars, metricsVars, adapterVars>>

\* config.rs:455-461
RemoveProvider(p) ==
    /\ RunUpdate(RemoveProviderEntry(p))
    /\ reg_expect' = [reg_expect EXCEPT ![p] = NoneOpt]
    /\ reg_owed' = reg_owed \ {p}
    /\ reg_call' = [fn |-> "remove_provider", id |-> p]
    /\ UNCHANGED paired
    /\ UNCHANGED <<retryVars, threadVars, routeVars, metricsVars, adapterVars>>

\* config.rs:41-46
RemoveFromProviderIndex(p) ==
    /\ RunUpdate(RetainIndex(p))
    /\ paired' = FALSE
    /\ reg_call' = [fn |-> "remove_from_provider_index", id |-> p]
    /\ UNCHANGED <<reg_expect, reg_owed>>
    /\ UNCHANGED <<retryVars, threadVars, routeVars, metricsVars, adapterVars>>

\* config.rs:447-451  the profile's JSON, parsed; an error when there is none
load_provider_config(data, p) ==
    IF p \in DOMAIN data.providers
    THEN from_json(data.providers[p])
    ELSE ParseErr

\* config.rs:445-452
LoadProviderConfig(p) ==
    LET key == get_or_create_key(keyring_key, keys_made)
        r == load(store_file, key)
    IN /\ r.ok
       /\ keyring_key' = Some(key)
       /\ keys_made' = KeysMadeAfter(keyring_key, keys_made)
       /\ reg_call' = [fn |-> "load_provider_config", id |-> p,
                       ret |-> load_provider_config(r.val, p)]
       /\ UNCHANGED <<store_file, reg_expect, reg_owed, paired>>
       /\ UNCHANGED <<retryVars, threadVars, routeVars, metricsVars, adapterVars>>

NextRegistry ==
    \/ \E p \in ProfileIds, c \in ProviderConfigs : ConfigureProvider(p, c)
    \/ \E p \in ProfileIds : AddToProviderIndex(p)
    \/ \E p \in ProfileIds : RemoveProvider(p)
    \/ \E p \in ProfileIds : RemoveFromProviderIndex(p)
    \/ \E p \in ProfileIds : LoadProviderConfig(p)

SpecRegistry == InitRegistry /\ [][NextRegistry]_vars

(***************************************************************************)
(* The alias router.  ROUTE_DATA is loaded by init() from the store.       *)
(***************************************************************************)
InitRoute ==
    /\ StoreFresh \/ \E d \in StoreSamples : StoreHolding(d)
    /\ RouteIdle
    /\ RetryIdle /\ ThreadsIdle /\ RegIdle
    /\ MetricsIdle /\ AdaptersIdle

\* route.rs:51-73
RouteInit ==
    /\ route_lock = "free"
    /\ LET key == get_or_create_key(keyring_key, keys_made)
           r == load(store_file, key)
       IN /\ r.ok
          /\ keyring_key' = Some(key)
          /\ keys_made' = KeysMadeAfter(keyring_key, keys_made)
          /\ route_data' = Some(RouteDataOf(r.val))
    /\ route_call' = [fn |-> "init"]
    /\ UNCHANGED <<store_file, route_lock>>
    /\ UNCHANGED <<retryVars, threadVars, regVars, metricsVars, adapterVars>>

\* route.rs:117-135 over get_route_rules (route.rs:92-96): the read lock is
\* taken and released; unwrap() of a ROUTE_DATA that is None panics.
ResolveAlias(a) ==
    /\ route_lock = "free"
    /\ route_call' = [fn |-> "resolve_alias", alias |-> a, provider |-> "",
                      ret |-> IF route_data = NoneOpt THEN RetPanic
                              ELSE resolve_alias(route_data[1].rules, a)]
    /\ UNCHANGED <<storeVars, route_data, route_lock>>
    /\ UNCHANGED <<retryVars, threadVars, regVars, metricsVars, adapterVars>>

\* route.rs:139-158
GetNextTarget(a, p) ==
    /\ route_lock = "free"
    /\ route_call' = [fn |-> "get_next_target", alias |-> a, provider |-> p,
                      ret |-> IF route_data = NoneOpt THEN RetPanic
                              ELSE get_next_target(route_data[1].rules, a, p)]
    /\ UNCHANGED <<storeVars, route_data, route_lock>>
    /\ UNCHANGED <<retryVars, threadVars, regVars, metricsVars, adapterVars>>

\* route.rs:76-89: the write guard taken at line 77 is still held when
\* persist() asks for the read lock at line 222.  RwLock::read on a lock the
\* thread itself holds for writing blocks forever or panics (which poisons the
\* lock); the call never returns Ok and no later call gets the lock.
SetRouteRules(a, ts) ==
    /\ route_lock = "free"
    /\ IF route_data = NoneOpt
       THEN /\ route_lock' = "poisoned"
            /\ UNCHANGED route_data
       ELSE /\ route_data' = Some([route_data[1] EXCEPT !.rules = MapPut(@, a, Rule(a, ts))])
            /\ route_lock' \in {"deadlocked", "poisoned"}
    /\ route_call' = [fn |-> "set_route_rules", alias |-> a, targets |-> ts,
                      ret |-> IF route_data = NoneOpt THEN RetPanic ELSE RetNever]
    /\ UNCHANGED storeVars
    /\ UNCHANGED <<retryVars, threadVars, regVars, metricsVars, adapterVars>>

\* route.rs:106-112: as set_route_rules, the write guard of line 107 is held
\* across persist()
DeleteRouteRules(a) ==
    /\ route_lock = "free"
    /\ IF route_data = NoneOpt
       THEN /\ route_lock' = "poisoned"
            /\ UNCHANGED route_data
       ELSE /\ route_data' = Some([route_data[1] EXCEPT !.rules = MapDel(@, a)])
            /\ route_lock' \in {"deadlocked", "poisoned"}
    /\ route_call' = [fn |-> "delete_route_rules", alias |-> a, targets |-> <<>>,
                      ret |-> IF route_data = NoneOpt THEN RetPanic ELSE RetNever]
    /\ UNCHANGED storeVars
    /\ UNCHANGED <<retryVars, threadVars, regVars, metricsVars, adapterVars>>

\* route.rs:92-96
GetRouteRules(a) ==
    /\ route_lock = "free"
    /\ route_call' = [fn |-> "get_route_rules", alias |-> a, targets |-> <<>>,
                      ret |-> IF route_data = NoneOpt THEN RetPanic
                              ELSE get_route_rules(route_data[1].rules, a)]
    /\ UNCHANGED <<storeVars, route_data, route_lock>>
    /\ UNCHANGED <<retryVars, threadVars, regVars, metricsVars, adapterVars>>

\* route.rs:185-190 over load_enabled_models (route.rs:165-172)
IsModelEnabled(p, m) ==
    /\ route_lock = "free"
    /\ route_call' = [fn |-> "is_model_enabled", alias |-> "", provider |-> p,
                      model |-> m,
                      ret |-> IF route_data = NoneOpt THEN RetPanic
                              ELSE RetOk(is_model_enabled(route_data[1].enabled_models, p, m))]
    /\ UNCHANGED <<storeVars, route_data, route_lock>>
    /\ UNCHANGED <<retryVars, threadVars, regVars, metricsVars, adapterVars>>

\* route.rs:193-208: toggle_model reads the list (the read guard is released),
\* then save_enabled_models (route.rs:175-182) takes the write guard, inserts
\* the list and calls persist() with the guard still held, as set_route_rules.
ToggleModel(p, m, e) ==
    /\ route_lock = "free"
    /\ IF route_data = NoneOpt
       THEN /\ UNCHANGED <<route_data, route_lock>>
            /\ route_call' = [fn |-> "toggle_model", alias |-> "", provider |-> p,
                              model |-> m, enabled |-> e, before |-> NoneOpt,
                              ret |-> RetPanic]
       ELSE LET em == route_data[1].enabled_models IN
            /\ route_data' = Some([route_data[1] EXCEPT !.enabled_models =
                                     MapPut(@, p, toggle_list(em, p, m, e, AllModels))])
            /\ route_lock' \in {"deadlocked", "poisoned"}
            /\ route_call' = [fn |-> "toggle_model", alias |-> "", provider |-> p,
                              model |-> m, enabled |-> e,
                              before |-> load_enabled_models(em, p),
                              ret |-> RetNever]
    /\ UNCHANGED storeVars
    /\ UNCHANGED <<retryVars, threadVars, regVars, metricsVars, adapterVars>>

NextRoute ==
    \/ RouteInit
    \/ \E a \in Aliases : ResolveAlias(a)
    \/ \E a \in Aliases, p \in RouteProviders : GetNextTarget(a, p)
    \/ \E a \in Aliases, ts \in TargetLists : SetRouteRules(a, ts)
    \/ \E a \in Aliases : DeleteRouteRules(a)
    \/ \E a \in Aliases : GetRouteRules(a)
    \/ \E p \in EnableProviders, m \in QueryModels : IsModelEnabled(p, m)
    \/ \E p \in EnableProviders, m \in ModelIds, e \in BOOLEAN : ToggleModel(p, m, e)

SpecRoute == InitRoute /\ [][NextRoute]_vars

RetryableErr(o) == ~o.ok /\ is_retryable(o.msg)
NonRetryableErr(o) == ~o.ok /\ ~is_retryable(o.msg)

\* C1: with_retry invokes the operation 1 + attempts_used times with
\* attempts_used in 0..max_retries and returns the final invocation's result:
\* every invocation but the last failed with a retryable error, one sleep
\* separates two invocations, and when the last invocation also failed with a
\* retryable error, the operation was invoked exactly max_retries + 1 times.
C1_InvocationCount ==
    /\ Len(outcomes) <= config.max_retries + 1
    /\ \A i \in 1..(Len(outcomes) - 1) : RetryableErr(outcomes[i])
    /\ retry_pc # "done" =>
          /\ result = None
          /\ \A i \in 1..Len(outcomes) : RetryableErr(outcomes[i])
    /\ retry_pc = "done" =>
          /\ Len(outcomes) - 1 \in 0..config.max_retries
          /\ Len(sleeps) = Len(outcomes) - 1
          /\ result = Last(outcomes)
          /\ RetryableErr(Last(outcomes)) => Len(outcomes) = config.max_retries + 1

\* two retryable failures, then Ok: three invocations (retry_tests.rs:28-52)
C1_Witness ==
    /\ retry_pc = "done"
    /\ config.max_retries = 3
    /\ Len(outcomes) = 3
    /\ RetryableErr(outcomes[1]) /\ RetryableErr(outcomes[2])
    /\ result = Ok(42)

\* C2: an invocation that fails with a non-retryable error is the last one:
\* with_retry returns that error at once, without sleeping after it; when it
\* is the first invocation, exactly 1 invocation and no sleep, whatever
\* max_retries is.
C2_NonRetryableFailsFast ==
    \A i \in 1..Len(outcomes) :
        NonRetryableErr(outcomes[i]) =>
            /\ retry_pc = "done"
            /\ i = Len(outcomes)
            /\ result = outcomes[i]
            /\ Len(sleeps) = i - 1

C2_Witness ==
    /\ retry_pc = "done"
    /\ config.max_retries = 3
    /\ outcomes = << Err(400, "HTTP 400 Bad request") >>
    /\ sleeps = <<>>
    /\ result = Err(400, "HTTP 400 Bad request")

\* an error that reports an HTTP 4xx status other than 429
Http4xxNot429(o) == ~o.ok /\ o.status \in (400..499) \ {429}

\* C3 (as claimed): an error reporting an HTTP 4xx status other than 429 is
\* permanent whatever its body says: with_retry returns it and neither sleeps
\* nor invokes the operation again after it.
C3_Http4xxIsPermanent ==
    \A i \in 1..Len(outcomes) :
        Http4xxNot429(outcomes[i]) => (retry_pc = "done" /\ i = Len(outcomes))


\* the rules of ROUTE_DATA at the last lookup
RulesNow == route_data[1].rules
Returned(fn) == route_call.fn = fn /\ route_call.ret # RetPanic
FirstTarget(rule) == <<rule.targets[1].provider_id, rule.targets[1].model_id>>

\* C4 (as claimed): resolve_alias(a) returns ("default", a) if and only if
\* no rule exists for a; a rule with targets yields its first target, a rule
\* with no targets an error.
C4_DefaultIffNoRule ==
    Returned("resolve_alias") =>
        LET a == route_call.alias IN
        /\ (route_call.ret = RetOk(<<"default", a>>)) <=> (a \notin DOMAIN RulesNow)
        /\ (a \in DOMAIN RulesNow /\ RulesNow[a].targets # <<>>) =>
              route_call.ret = RetOk(FirstTarget(RulesNow[a]))
        /\ (a \in DOMAIN RulesNow /\ RulesNow[a].targets = <<>>) =>
              route_call.ret = RetErr

\* C4 (amended): when no rule exists for a, resolve_alias(a) returns
\* ("default", a); when a rule exists it returns the first target of the rule,
\* which is ("default", a) only if the rule lists that pair first; a rule with
\* no targets makes it fail.
C4_ResolveAlias ==
    Returned("resolve_alias") =>
        LET a == route_call.alias IN
        /\ (a \notin DOMAIN RulesNow) => route_call.ret = RetOk(<<"default", a>>)
        /\ (a \in DOMAIN RulesNow /\ RulesNow[a].targets # <<>>) =>
              route_call.ret = RetOk(FirstTarget(RulesNow[a]))
        /\ (a \in DOMAIN RulesNow /\ RulesNow[a].targets = <<>>) =>
              route_call.ret = RetErr
        /\ (route_call.ret = RetOk(<<"default", a>>) /\ a \in DOMAIN RulesNow) =>
              (RulesNow[a].targets # <<>> /\ FirstTarget(RulesNow[a]) = <<"default", a>>)

\* a rule of three targets resolved to its first, with the empty rule present
C4_Witness ==
    /\ Returned("resolve_alias")
    /\ route_call.alias = "prod"
    /\ "prod" \in DOMAIN RulesNow /\ Len(RulesNow["prod"].targets) = 3
    /\ route_call.ret = RetOk(<<"openai", "gpt-4">>)
    /\ "empty" \in DOMAIN RulesNow /\ RulesNow["empty"].targets = <<>>

\* C5: get_next_target(a, p) returns the target right after the first target
\* of rule a whose provider_id is p, and none when that first match is the
\* last target, when no target matches p, or when a has no rule.
C5_NextAfterFirstMatch ==
    Returned("get_next_target") =>
        LET a == route_call.alias
            p == route_call.provider
            ts == IF a \in DOMAIN RulesNow THEN RulesNow[a].targets ELSE <<>>
            FirstMatch(i) == /\ ts[i].provider_id = p
                             /\ \A j \in 1..(i - 1) : ts[j].provider_id # p
        IN /\ \A i \in 1..Len(ts) :
                FirstMatch(i) =>
                    IF i < Len(ts)
                    THEN route_call.ret =
                            RetSome(<<ts[i + 1].provider_id, ts[i + 1].model_id>>)
                    ELSE route_call.ret = RetNone
           /\ (\A i \in 1..Len(ts) : ts[i].provider_id # p) => route_call.ret = RetNone

\* the provider listed twice: the target after its first entry is returned
C5_Witness ==
    /\ Returned("get_next_target")
    /\ route_call.alias = "dup" /\ route_call.provider = "openai"
    /\ "dup" \in DOMAIN RulesNow /\ RulesNow["dup"] = RuleDup
    /\ route_call.ret = RetSome(<<"openai", "gpt-3.5">>)

\* C6: a load() that follows a thread's completed update whose mutator set
\* the data to S, with no other thread writing the file in between, returns
\* exactly S.
C6_StoreRoundTrip ==
    \A t \in Threads :
        (last_load[t].done /\ last_mut[t].op = "set" /\ clean[t]) =>
            (last_load[t].ok /\ last_load[t].ret = last_mut[t].data)

C6_Witness ==
    \E t \in Threads :
        /\ last_load[t].done /\ clean[t]
        /\ last_mut[t] = SetData(Store1)
        /\ last_load[t].ret = Store1
        /\ data0 = EmptyStore

\* C7 (as claimed): when two threads have each completed one update, the
\* stored data is the two mutators applied one after the other, in some
\* order, to the data the store held before.
C7_UpdatesSerialize ==
    (\A t \in Threads : upd_done[t] = 1 /\ th_pc[t] = "idle") =>
        Stored(store_file, keyring_key) \in
            { Apply(last_mut["t2"], Apply(last_mut["t1"], data0)),
              Apply(last_mut["t1"], Apply(last_mut["t2"], data0)) }

\* C8 (as claimed): a load() returns a complete StoreData: the data of the
\* last completed write or the data of a write in progress, never the empty
\* store of a file caught between truncation and write.
C8_LoadSeesCompleteData ==
    \A t \in Threads : last_load[t].done => last_load[t].ret \in last_load[t].complete

\* C9: load_provider_config(p) after a successful configure_provider(p, C)
\* (the latest one, when p was configured more than once) returns a config
\* with C's type_slug and C's field values; it returns an error when p is not
\* configured.
C9_ConfigRoundTrip ==
    reg_call.fn = "load_provider_config" =>
        LET p == reg_call.id IN
        IF reg_expect[p] # NoneOpt
        THEN /\ reg_call.ret.ok
             /\ type_slug(reg_call.ret.val) = type_slug(reg_expect[p][1].cfg)
             /\ reg_call.ret.val = reg_expect[p][1].cfg
        ELSE ~reg_call.ret.ok

\* p1 configured twice, then loaded: the second config comes back
C9_Witness ==
    /\ reg_call.fn = "load_provider_config" /\ reg_call.id = "p1"
    /\ reg_expect["p1"] = Some([cfg |-> CfgDashScope, overwrote |-> TRUE])
    /\ reg_call.ret = ParseOk(CfgDashScope)

\* C10 (as claimed): with every configure_provider paired with
\* add_to_provider_index and profiles removed by remove_provider, a profile
\* id is in providers iff it is in provider_index.
C10_IndexMatchesProviders ==
    (paired /\ reg_owed = {}) =>
        LET d == Stored(store_file, keyring_key) IN
        \A p \in ProfileIds :
            (p \in DOMAIN d.providers) <=> InSeq(d.provider_index, p)

(***************************************************************************)
(* Threads recording into one MetricsCollector, and RequestTimers.         *)
(***************************************************************************)
InitMetrics ==
    /\ MetricsIdle
    /\ StoreFresh /\ RetryIdle /\ ThreadsIdle /\ RegIdle /\ RouteIdle
    /\ AdaptersIdle

RECURSIVE SumOver(_, _)
SumOver(f, S) ==
    IF S = {} THEN 0
    ELSE LET x == CHOOSE y \in S : TRUE IN f[x] + SumOver(f, S \ {x})

\* record calls made directly on the collector, returned or in progress
RecordsStarted ==
    SumOver(m_done, CallNames)
    + Cardinality({t \in Threads : m_pc[t] # "idle" /\ m_call[t].timer = 0})

\* the call of thread t returns
Returns(t) ==
    /\ m_pc' = [m_pc EXCEPT ![t] = "idle"]
    /\ m_call' = [m_call EXCEPT ![t] = NoCall]
    /\ m_local' = [m_local EXCEPT ![t] = ZeroInner]
    /\ m_done' = [m_done EXCEPT ![m_call[t].name] = @ + 1]

\* metrics.rs:92 / 148 (reached directly or through the _with_breakdown
\* methods, lines 117 and 163): requests_total.fetch_add(1)
RecordStart(t, c) ==
    /\ m_pc[t] = "idle"
    /\ RecordsStarted < MaxRecords
    /\ collector' = CountRequest(collector)
    /\ m_pc' = [m_pc EXCEPT ![t] = "counted"]
    /\ m_call' = [m_call EXCEPT ![t] = c]
    /\ UNCHANGED <<provider_metrics, m_local, m_done, timers>>
    /\ UNCHANGED <<retryVars, storeVars, threadVars, regVars, routeVars, adapterVars>>

\* metrics.rs:93-103 / 149-152: the rest of record_success / record_failure.
\* A breakdown call goes on to the map; a timer's method sets `recorded`
\* (lines 275, 282) and ends, which drops the timer; a call made by drop ends
\* the timer's life.
RecordGlobal(t) ==
    /\ m_pc[t] = "counted"
    /\ LET c == m_call[t] IN
       /\ collector' = IF IsSuccess(c) THEN record_success_rest(collector, c)
                       ELSE record_failure_rest(collector, c)
       /\ IF IsBreakdown(c)
          THEN /\ m_pc' = [m_pc EXCEPT ![t] = "clone"]
               /\ UNCHANGED <<m_call, m_local, m_done, timers>>
          ELSE IF c.timer # 0
          THEN /\ timers' = [timers EXCEPT ![c.timer] =
                    [@ EXCEPT !.successes = @ + (IF IsSuccess(c) THEN 1 ELSE 0),
                              !.failures = @ + (IF IsSuccess(c) THEN 0 ELSE 1),
                              !.recorded = IF c.via = "drop" THEN @ ELSE TRUE,
                              !.state = IF c.via = "drop" THEN "gone" ELSE @]]
               /\ IF c.via = "drop"
                  THEN /\ m_pc' = [m_pc EXCEPT ![t] = "idle"]
                       /\ m_call' = [m_call EXCEPT ![t] = NoCall]
                  ELSE /\ m_pc' = [m_pc EXCEPT ![t] = "drop"]
                       /\ m_call' = m_call
               /\ UNCHANGED <<m_local, m_done>>
          ELSE /\ Returns(t)
               /\ UNCHANGED timers
    /\ UNCHANGED provider_metrics
    /\ UNCHANGED <<retryVars, storeVars, threadVars, regVars, routeVars, adapterVars>>

\* metrics.rs:120-137 / 167-177: clone the entry (or default) under the read
\* lock, then add to the clone
RecordClone(t) ==
    /\ m_pc[t] = "clone"
    /\ m_local' = [m_local EXCEPT ![t] =
                     BumpLocal(ClonedEntry(provider_metrics, KeyOf(m_call[t])), m_call[t])]
    /\ m_pc' = [m_pc EXCEPT ![t] = "check"]
    /\ UNCHANGED <<collector, provider_metrics, m_call, m_done, timers>>
    /\ UNCHANGED <<retryVars, storeVars, threadVars, regVars, routeVars, adapterVars>>

\* metrics.rs:140 / 180: `if !self.provider_metrics.read().unwrap().contains_key(&key)`
RecordCheck(t) ==
    /\ m_pc[t] = "check"
    /\ IF KeyOf(m_call[t]) \in DOMAIN provider_metrics
       THEN Returns(t)
       ELSE /\ m_pc' = [m_pc EXCEPT ![t] = "write"]
            /\ UNCHANGED <<m_call, m_local, m_done>>
    /\ UNCHANGED <<collector, provider_metrics, timers>>
    /\ UNCHANGED <<retryVars, storeVars, threadVars, regVars, routeVars, adapterVars>>

\* metrics.rs:141-142 / 181-182: lock.insert(key, metrics) under the write lock
RecordInsert(t) ==
    /\ m_pc[t] = "write"
    /\ provider_metrics' = MapPut(provider_metrics, KeyOf(m_call[t]), m_local[t])
    /\ Returns(t)
    /\ UNCHANGED <<collector, timers>>
    /\ UNCHANGED <<retryVars, storeVars, threadVars, regVars, routeVars, adapterVars>>

\* metrics.rs:262-268: RequestTimer::new
TimerNew(id) ==
    /\ timers[id].state = "none"
    /\ timers' = [timers EXCEPT ![id].state = "live"]
    /\ UNCHANGED <<collector, provider_metrics, m_pc, m_call, m_local, m_done>>
    /\ UNCHANGED <<retryVars, storeVars, threadVars, regVars, routeVars, adapterVars>>

\* metrics.rs:271-276 / 279-283: success(self, ..) or failure(self) takes the
\* timer and starts its record call
TimerMethod(t, id, via) ==
    /\ m_pc[t] = "idle"
    /\ timers[id].state = "live"
    /\ timers' = [timers EXCEPT ![id].state = "moved", ![id].how = via]
    /\ collector' = CountRequest(collector)
    /\ m_call' = [m_call EXCEPT ![t] = TimerCallOf(id, via)]
    /\ m_pc' = [m_pc EXCEPT ![t] = "counted"]
    /\ UNCHANGED <<provider_metrics, m_local, m_done>>
    /\ UNCHANGED <<retryVars, storeVars, threadVars, regVars, routeVars, adapterVars>>

\* the owner's scope ends (return, `?`, cancellation) with the timer unused
TimerScopeExit(t, id) ==
    /\ m_pc[t] = "idle"
    /\ timers[id].state = "live"
    /\ timers' = [timers EXCEPT ![id].state = "moved", ![id].how = "drop"]
    /\ m_call' = [m_call EXCEPT ![t] = [NoCall EXCEPT !.timer = id]]
    /\ m_pc' = [m_pc EXCEPT ![t] = "drop"]
    /\ UNCHANGED <<collector, provider_metrics, m_local, m_done>>
    /\ UNCHANGED <<retryVars, storeVars, threadVars, regVars, routeVars, adapterVars>>

\* metrics.rs:287-295: Drop::drop
TimerDrop(t) ==
    /\ m_pc[t] = "drop"
    /\ LET id == m_call[t].timer IN
       IF DropRecords(timers[id].recorded)
       THEN /\ collector' = CountRequest(collector)
            /\ m_call' = [m_call EXCEPT ![t] = TimerCallOf(id, "drop")]
            /\ m_pc' = [m_pc EXCEPT ![t] = "counted"]
            /\ UNCHANGED timers
       ELSE /\ timers' = [timers EXCEPT ![id].state = "gone"]
            /\ m_call' = [m_call EXCEPT ![t] = NoCall]
            /\ m_pc' = [m_pc EXCEPT ![t] = "idle"]
            /\ UNCHANGED collector
    /\ UNCHANGED <<provider_metrics, m_local, m_done>>
    /\ UNCHANGED <<retryVars, storeVars, threadVars, regVars, routeVars, adapterVars>>

NextMetrics ==
    \/ \E t \in Threads, c \in MetricCalls : RecordStart(t, c)
    \/ \E t \in Threads : RecordGlobal(t)
    \/ \E t \in Threads : RecordClone(t)
    \/ \E t \in Threads : RecordCheck(t)
    \/ \E t \in Threads : RecordInsert(t)
    \/ \E id \in TimerIds : TimerNew(id)
    \/ \E t \in Threads, id \in TimerIds, via \in {"success", "failure"} :
          TimerMethod(t, id, via)
    \/ \E t \in Threads, id \in TimerIds : TimerScopeExit(t, id)
    \/ \E t \in Threads : TimerDrop(t)

SpecMetrics == InitMetrics /\ [][NextMetrics]_vars

AllReturned == \A t \in Threads : m_pc[t] = "idle"

\* C11: once every record call has returned, requests_total =
\* requests_success + requests_failed, whatever the interleaving of the
\* threads' calls was; the total is the number of calls made.
C11_TotalIsSuccessPlusFailed ==
    AllReturned =>
        /\ collector.requests_total =
              collector.requests_success + collector.requests_failed
        /\ collector.requests_total =
              SumOver(m_done, CallNames)
              + SumOver([i \in TimerIds |-> timers[i].successes + timers[i].failures],
                        TimerIds)

C11_Witness ==
    /\ AllReturned
    /\ collector.requests_success >= 1
    /\ collector.requests_failed >= 1
    /\ collector.requests_total >= 3

BreakdownCalls == {n \in CallNames : IsBreakdown(CallNamed(n))}
BreakdownKeys == {KeyOf(CallNamed(n)) : n \in BreakdownCalls}

\* C12: once every call has returned, the breakdown entry of every key holds
\* the count of the calls made with that key, the count of the failures among
\* them and the sums of their prompt and completion tokens; the entries'
\* requests_total add up to the number of breakdown calls.
C12_BreakdownMatchesCalls ==
    AllReturned =>
        \A k \in BreakdownKeys :
            LET made == {n \in BreakdownCalls : KeyOf(CallNamed(n)) = k}
                e == ClonedEntry(provider_metrics, k)
            IN /\ e.requests_total = SumOver(m_done, made)
               /\ e.requests_failed =
                     SumOver(m_done, {n \in made : ~IsSuccess(CallNamed(n))})
               /\ e.prompt_tokens =
                     SumOver([n \in made |-> m_done[n] * CallNamed(n).prompt_tokens], made)
               /\ e.completion_tokens =
                     SumOver([n \in made |-> m_done[n] * CallNamed(n).completion_tokens],
                             made)

\* C13: a RequestTimer never records twice, and once its life has ended it
\* has recorded exactly one request: a success if success() was called, a
\* failure if failure() was called or it was dropped unused.
C13_TimerRecordsOnce ==
    \A i \in TimerIds :
        /\ timers[i].successes + timers[i].failures <= 1
        /\ timers[i].state = "gone" =>
              IF timers[i].how = "success"
              THEN timers[i].successes = 1 /\ timers[i].failures = 0
              ELSE timers[i].successes = 0 /\ timers[i].failures = 1

C13_Witness ==
    /\ \E i \in TimerIds : timers[i].state = "gone" /\ timers[i].how = "drop"
    /\ \E i \in TimerIds : timers[i].state = "gone" /\ timers[i].how = "success"

(***************************************************************************)
(* One stream returned by complete_stream and a consumer pulling items.    *)
(***************************************************************************)
InitStream ==
    /\ sse_adapter \in StreamAdapters
    /\ frames \in FrameSeqs(sse_adapter)
    /\ \E c \in Chunkings(frames), tail \in {<<>>, <<TransportError>>} :
          transport = c \o tail
    /\ emitted = <<>>
    /\ stream_ended = FALSE
    /\ UsageIdle /\ TokenIdle /\ FlowIdle /\ LaunchIdle
    /\ MetricsIdle
    /\ StoreFresh /\ RetryIdle /\ ThreadsIdle /\ RegIdle /\ RouteIdle

\* the consumer calls next() on the stream: the unfold closure runs once
\* (openai.rs:221-279).  bytes_stream() keeps answering None once exhausted.
Poll ==
    /\ ~stream_ended
    /\ LET r == PollStream(sse_adapter, transport) IN
       /\ transport' = r.rest
       /\ stream_ended' = ~r.some
       /\ emitted' = IF r.some /\ Len(emitted) < MaxItems
                     THEN Append(emitted, r.item) ELSE emitted
    /\ UNCHANGED <<sse_adapter, frames>>
    /\ UNCHANGED <<usageVars, tokenVars, flowVars>>
    /\ UNCHANGED <<retryVars, storeVars, threadVars, regVars, routeVars, metricsVars, launchVars>>

NextStream == Poll

SpecStream == InitStream /\ [][NextStream]_vars

\* the consumer keeps pulling
SpecStreamLive == SpecStream /\ WF_vars(Poll)

\* C14: the emitted sequence holds exactly one terminal item (Done or a
\* stream error) and nothing after it: no item but the last is terminal, and
\* a stream that has ended ended with a terminal item.
C14_OneTerminalLast ==
    /\ \A i \in 1..(Len(emitted) - 1) : ~Terminal(emitted[i])
    /\ stream_ended => (emitted # <<>> /\ Terminal(Last(emitted)))

\* C15: a consumer that keeps pulling reaches the end of the stream.
C15_StreamEnds == <>stream_ended

\* the contents of the Delta items of a sequence of stream items
DeltaContents(items) ==
    LET ds == SelectSeq(items, LAMBDA e : e.kind = "delta")
    IN [i \in 1..Len(ds) |-> ds[i].content]

\* the frames the backend sent before its terminator, as stream items
RECURSIVE BeforeTerminator(_)
BeforeTerminator(items) ==
    IF items = <<>> \/ Terminal(items[1]) THEN <<>>
    ELSE <<items[1]>> \o BeforeTerminator(Tail(items))

FrameItems == [i \in 1..Len(frames) |-> OpenAiLineEvent(frames[i])]

\* C16: for well-formed frames, however they are cut into chunks, once the
\* OpenAI-compatible stream has emitted its terminal item the Deltas before
\* it are the non-empty contents of the frames before the terminator, in
\* transport order.
C16_DeltasInTransportOrder ==
    (/\ sse_adapter = "openai"
     /\ frames \in WellFormedFrames("openai")
     /\ \E i \in 1..Len(emitted) : Terminal(emitted[i]))
    => DeltaContents(BeforeTerminator(emitted))
          = DeltaContents(BeforeTerminator(FrameItems))

(***************************************************************************)
(* parse_response applied to one backend response.                         *)
(***************************************************************************)
InitUsage ==
    /\ usage_adapter \in UsageAdapters
    /\ backend_usage \in BackendUsages
    /\ response = Unparsed
    /\ StreamIdle /\ TokenIdle /\ FlowIdle /\ LaunchIdle
    /\ MetricsIdle
    /\ StoreFresh /\ RetryIdle /\ ThreadsIdle /\ RegIdle /\ RouteIdle

ParseResponse ==
    /\ ~response.parsed
    /\ response' = [parsed |-> TRUE, usage |-> parse_usage(usage_adapter, backend_usage)]
    /\ UNCHANGED <<usage_adapter, backend_usage>>
    /\ UNCHANGED <<streamVars, tokenVars, flowVars>>
    /\ UNCHANGED <<retryVars, storeVars, threadVars, regVars, routeVars, metricsVars, launchVars>>

NextUsage == ParseResponse

SpecUsage == InitUsage /\ [][NextUsage]_vars

\* C17: a CompletionResponse built with usage present has
\* usage.total_tokens = usage.prompt_tokens + usage.completion_tokens,
\* whatever token members the backend reported.
C17_TotalIsPromptPlusCompletion ==
    (response.parsed /\ response.usage # NoneOpt) =>
        response.usage[1].total_tokens =
            response.usage[1].prompt_tokens + response.usage[1].completion_tokens

(***************************************************************************)
(* Callers of one CopilotProvider running ensure_copilot_token.            *)
(***************************************************************************)
InitToken ==
    /\ cached_token \in {NoneOpt, Some(CachedToken(0, 30))}
    /\ token_lock = "free"
    /\ ck_pc = [t \in Threads |-> "idle"]
    /\ ck_ret = [t \in Threads |-> NoReturn]
    /\ now = 0
    /\ exchanges = <<>>
    /\ FlowIdle /\ StreamIdle /\ UsageIdle /\ LaunchIdle
    /\ MetricsIdle
    /\ StoreFresh /\ RetryIdle /\ ThreadsIdle /\ RegIdle /\ RouteIdle

\* copilot.rs:339: a chat operation reaches `self.cached_token.lock().await`
EnsureCall(t) ==
    /\ ck_pc[t] = "idle"
    /\ ck_pc' = [ck_pc EXCEPT ![t] = "wait"]
    /\ ck_ret' = [ck_ret EXCEPT ![t].waited = (token_lock # "free")]
    /\ UNCHANGED <<cached_token, token_lock, now, exchanges>>
    /\ UNCHANGED <<flowVars, streamVars, usageVars>>
    /\ UNCHANGED <<retryVars, storeVars, threadVars, regVars, routeVars, metricsVars, launchVars>>

\* copilot.rs:339: the lock is granted
Acquire(t) ==
    /\ ck_pc[t] = "wait"
    /\ token_lock = "free"
    /\ token_lock' = t
    /\ ck_pc' = [ck_pc EXCEPT ![t] = "locked"]
    /\ UNCHANGED <<cached_token, ck_ret, now, exchanges>>
    /\ UNCHANGED <<flowVars, streamVars, usageVars>>
    /\ UNCHANGED <<retryVars, storeVars, threadVars, regVars, routeVars, metricsVars, launchVars>>

\* copilot.rs:342-355: return the cached token if valid (dropping the guard),
\* else send the exchange request with the guard held
CheckCached(t) ==
    /\ ck_pc[t] = "locked"
    /\ IF TokenValid(cached_token, now)
       THEN /\ ck_ret' = [ck_ret EXCEPT ![t].returned = TRUE, ![t].ok = TRUE,
                                        ![t].token = cached_token[1].token,
                                        ![t].checked = TRUE,
                                        ![t].seen = cached_token,
                                        ![t].checked_at = now]
            /\ ck_pc' = [ck_pc EXCEPT ![t] = "done"]
            /\ token_lock' = "free"
       ELSE /\ ck_pc' = [ck_pc EXCEPT ![t] = "exchange"]
            /\ ck_ret' = [ck_ret EXCEPT ![t].checked = TRUE,
                                        ![t].seen = cached_token,
                                        ![t].checked_at = now,
                                        ![t].exchanged = TRUE]
            /\ UNCHANGED token_lock
    /\ UNCHANGED <<cached_token, now, exchanges>>
    /\ UNCHANGED <<flowVars, streamVars, usageVars>>
    /\ UNCHANGED <<retryVars, storeVars, threadVars, regVars, routeVars, metricsVars, launchVars>>

\* copilot.rs:355-358: the exchange answers; Ok caches and returns the token,
\* Err leaves through `?`; both drop the guard
cache_after_clears(cached, r) ==
    IF r.ok THEN Some(CachedToken(r.token, r.expires_at)) ELSE NoneOpt

\* copilot.rs:355-357: `?` returns before the assignment to *guard
cache_after(cached, r) ==
    IF r.ok THEN Some(CachedToken(r.token, r.expires_at)) ELSE cached

ExchangeReturns(t, r) ==
    /\ ck_pc[t] = "exchange"
    /\ exchanges' = Append(exchanges, r)
    /\ cached_token' = cache_after(cached_token, r)
    /\ ck_ret' = [ck_ret EXCEPT ![t].returned = TRUE, ![t].ok = r.ok,
                                ![t].token = r.token]
    /\ ck_pc' = [ck_pc EXCEPT ![t] = "done"]
    /\ token_lock' = "free"
    /\ UNCHANGED now
    /\ UNCHANGED <<flowVars, streamVars, usageVars>>
    /\ UNCHANGED <<retryVars, storeVars, threadVars, regVars, routeVars, metricsVars, launchVars>>

\* the system clock advances
Tick ==
    /\ now + TickSecs <= MaxNow
    /\ now' = now + TickSecs
    /\ UNCHANGED <<cached_token, token_lock, ck_pc, ck_ret, exchanges>>
    /\ UNCHANGED <<flowVars, streamVars, usageVars>>
    /\ UNCHANGED <<retryVars, storeVars, threadVars, regVars, routeVars, metricsVars, launchVars>>

NextToken ==
    \/ \E t \in Threads : EnsureCall(t)
    \/ \E t \in Threads : Acquire(t)
    \/ \E t \in Threads : CheckCached(t)
    \/ \E t \in Threads : \E r \in ExchangeResults(Len(exchanges) + 1, now) :
          ExchangeReturns(t, r)
    \/ Tick

SpecToken == InitToken /\ [][NextToken]_vars

StillValid(r) == r.ok /\ r.expires_at > now + RefreshMarginSecs

\* C18: at most one token exchange is in flight; no exchange follows one
\* whose token is still valid (expires_at > now + 60); and when the first
\* exchange returned such a token and every caller has returned, exactly one
\* exchange was made and every caller got that token.
C18_OneExchange ==
    /\ Cardinality({t \in Threads : ck_pc[t] = "exchange"}) <= 1
    /\ \A i \in 1..(Len(exchanges) - 1) : ~StillValid(exchanges[i])
    /\ ((\A t \in Threads : ck_pc[t] = "done")
        /\ exchanges # <<>> /\ StillValid(exchanges[1]))
       => /\ Len(exchanges) = 1
          /\ \A t \in Threads : ck_ret[t].ok /\ ck_ret[t].token = exchanges[1].token

C18_Witness ==
    /\ \A t \in Threads : ck_pc[t] = "done"
    /\ Len(exchanges) = 1 /\ StillValid(exchanges[1])
    /\ \E t \in Threads : ck_ret[t].waited /\ ck_ret[t].token = exchanges[1].token
    /\ now > 0

(***************************************************************************)
(* One device flow: the device code is issued, then the polling loop runs. *)
(***************************************************************************)
InitFlow ==
    /\ flow \in DeviceFlows
    /\ flow_pc = "issued"
    /\ flow_now = 0
    /\ device_code \in [issued_at : {0}, expires_in : ExpiresIns, interval : Intervals]
    /\ deadline = 0
    /\ delay = 0
    /\ poll_times = <<>>
    /\ poll_answers = <<>>
    /\ flow_result = None
    /\ TokenIdle /\ StreamIdle /\ UsageIdle /\ LaunchIdle
    /\ MetricsIdle
    /\ StoreFresh /\ RetryIdle /\ ThreadsIdle /\ RegIdle /\ RouteIdle

\* time passes between the device-code response and the call of the polling
\* loop (the challenge is shown to the user first)
FlowWait ==
    /\ flow_pc = "issued"
    /\ flow_now + SlowDownSecs <= MaxFlowNow
    /\ flow_now' = flow_now + SlowDownSecs
    /\ UNCHANGED <<flow, flow_pc, device_code, deadline, delay, poll_times,
                   poll_answers, flow_result>>
    /\ UNCHANGED <<tokenVars, streamVars, usageVars>>
    /\ UNCHANGED <<retryVars, storeVars, threadVars, regVars, routeVars, metricsVars, launchVars>>

\* copilot.rs:214-215 / dashscope.rs:327-329: delay and deadline at loop entry
PollForToken ==
    /\ flow_pc = "issued"
    /\ delay' = device_code.interval
    /\ deadline' = flow_now + device_code.expires_in
    /\ flow_pc' = "check"
    /\ UNCHANGED <<flow, flow_now, device_code, poll_times, poll_answers, flow_result>>
    /\ UNCHANGED <<tokenVars, streamVars, usageVars>>
    /\ UNCHANGED <<retryVars, storeVars, threadVars, regVars, routeVars, metricsVars, launchVars>>

\* copilot.rs:218-222 / dashscope.rs:332-335: the deadline test, then
\* sleep(delay).await
CheckAndSleep ==
    /\ flow_pc = "check"
    /\ IF flow_now >= deadline
       THEN /\ flow_result' = "expired before authorised"
            /\ flow_pc' = "done"
            /\ UNCHANGED flow_now
       ELSE /\ flow_now + delay <= MaxFlowNow
            /\ flow_now' = flow_now + delay
            /\ flow_pc' = "poll"
            /\ UNCHANGED flow_result
    /\ UNCHANGED <<flow, device_code, deadline, delay, poll_times, poll_answers>>
    /\ UNCHANGED <<tokenVars, streamVars, usageVars>>
    /\ UNCHANGED <<retryVars, storeVars, threadVars, regVars, routeVars, metricsVars, launchVars>>

\* copilot.rs:224-254 / dashscope.rs:337-390: the poll request is sent and
\* answered
SendPoll(answer) ==
    /\ flow_pc = "poll"
    /\ poll_times' = Append(poll_times, flow_now)
    /\ poll_answers' = Append(poll_answers, answer)
    /\ delay' = IF PollOutcome(flow, answer) = "slow_down"
                THEN delay + SlowDownBy(flow, answer) ELSE delay
    /\ IF PollOutcome(flow, answer) \in {"continue", "slow_down"}
       THEN flow_pc' = "check" /\ UNCHANGED flow_result
       ELSE /\ flow_pc' = "done"
            /\ flow_result' = IF PollOutcome(flow, answer) = "success"
                               THEN "token" ELSE "error"
    /\ UNCHANGED <<flow, flow_now, device_code, deadline>>
    /\ UNCHANGED <<tokenVars, streamVars, usageVars>>
    /\ UNCHANGED <<retryVars, storeVars, threadVars, regVars, routeVars, metricsVars, launchVars>>

NextFlow ==
    \/ FlowWait
    \/ PollForToken
    \/ CheckAndSleep
    \/ \E answer \in PollAnswers : SendPoll(answer)

SpecFlow == InitFlow /\ [][NextFlow]_vars

\* C19: no poll request is sent at or after the deadline, the device code's
\* issuance time plus its expires_in.
C19_NoPollPastDeadline ==
    \A i \in 1..Len(poll_times) :
        poll_times[i] < device_code.issued_at + device_code.expires_in

\* C20: a set_route_rules(alias, T) or delete_route_rules(alias) call on an
\* initialised router returns, leaving the rule (alias, T), respectively no
\* rule for alias, both in memory and in the store, from where a later
\* init() reloads the same rules; get_route_rules returns the rule in memory.
C20_RouteRulesRoundTrip ==
    /\ (route_call.fn \in {"set_route_rules", "delete_route_rules"}
        /\ route_call.ret # RetPanic) =>
          /\ route_lock = "free"
          /\ RouteDataOf(Stored(store_file, keyring_key)).rules = RulesNow
          /\ IF route_call.fn = "set_route_rules"
             THEN get_route_rules(RulesNow, route_call.alias)
                     = RetSome(Rule(route_call.alias, route_call.targets))
             ELSE get_route_rules(RulesNow, route_call.alias) = RetNone
    /\ Returned("get_route_rules") =>
          route_call.ret = get_route_rules(RulesNow, route_call.alias)

EnabledNow == route_data[1].enabled_models

\* C21: is_model_enabled(p, m) is true for every model id m iff the
\* enablement map has no entry for p; with an entry it is true exactly for
\* the members of the stored list, so a present, empty list enables none.
C21_EnabledIffNoEntryOrMember ==
    /\ Returned("is_model_enabled") =>
          LET p == route_call.provider
              m == route_call.model
          IN /\ p \notin DOMAIN EnabledNow => route_call.ret = RetOk(TRUE)
             /\ p \in DOMAIN EnabledNow =>
                   route_call.ret = RetOk(InSeq(EnabledNow[p], m))
    /\ route_data # NoneOpt =>
          \A p \in EnableProviders :
              (\A m \in QueryModels : is_model_enabled(EnabledNow, p, m))
                 <=> p \notin DOMAIN EnabledNow

C21_Witness ==
    /\ Returned("is_model_enabled")
    /\ route_call.provider = "p2"
    /\ "p2" \in DOMAIN EnabledNow /\ EnabledNow["p2"] = <<>>
    /\ route_call.ret = RetOk(FALSE)

\* C22: a toggle_model(p, m, e, all_models) call on an initialised router
\* returns; afterwards is_model_enabled(p, m) = e, every other model has the
\* membership it had in the list read (the stored list, or all_models
\* without an entry), and m is in the list at most once.
C22_ToggleSetsMembership ==
    (route_call.fn = "toggle_model" /\ route_call.ret # RetPanic) =>
        LET p == route_call.provider
            m == route_call.model
            read == IF route_call.before = NoneOpt THEN AllModels
                    ELSE route_call.before[1]
        IN /\ route_lock = "free"
           /\ is_model_enabled(EnabledNow, p, m) = route_call.enabled
           /\ \A o \in ModelIds \ {m} :
                 is_model_enabled(EnabledNow, p, o) = InSeq(read, o)
           /\ Cardinality({i \in 1..Len(EnabledNow[p]) : EnabledNow[p][i] = m}) <= 1

(***************************************************************************)
(* The legacy migration (config.rs:48-93) over the encrypted store and the *)
(* two legacy keyring entries.                                             *)
(***************************************************************************)
MaxMigrations == 3
LegacyIds == {"openai", "anthropic", "llamacpp", "copilot", "dashscope"}

\* config.rs:26-28
load_provider_index(file, key) ==
    LET r == load(file, key) IN IF r.ok THEN r.val.provider_index ELSE <<>>

\* config.rs:507-509
provider_is_configured(file, key, id) ==
    LET r == load(file, key) IN r.ok /\ load_provider_config(r.val, id).ok

\* store.rs:125-136: update fails, and writes nothing, when load fails
update_ok(file, key) == load(file, key).ok
update_file(file, key, m) ==
    IF update_ok(file, key) THEN UpdateBytes(file, key, m) ELSE file

has_never(index, id) == FALSE

\* config.rs:51
has(index, id) == InSeq(index, id)

\* config.rs:54-58: the index read at line 49 decides, the result of
\* add_to_provider_index is dropped
migrate_api_key(file, key, index, id) ==
    IF ~has(index, id) /\ provider_is_configured(file, key, id)
    THEN update_file(file, key, PushIndex(id))
    ELSE file

\* config.rs:61-69 and 72-92: configure_provider, then the index when it
\* returned Ok
migrate_oauth(file, key, index, id, cfg) ==
    IF ~has(index, id) /\ cfg # NoneOpt /\ update_ok(file, key)
    THEN update_file(update_file(file, key, InsertProvider(id, to_json(cfg[1]))),
                     key, PushIndex(id))
    ELSE file

\* dashscope.rs:75-83 read by serde_json::from_str: access_token is required
parse_credentials(j) ==
    IF HasStr(j, "access_token")
    THEN ParseOk([access_token |-> Get(j, "access_token").v,
                  refresh_token |-> FieldOptStr(j, "refresh_token"),
                  resource_url |-> FieldOptStr(j, "resource_url"),
                  expiry_date |-> FieldOptNum(j, "expiry_date")])
    ELSE ParseErr

\* config.rs:62-66 with ProviderConfig::copilot (config.rs:300-305)
legacy_copilot(kr) ==
    IF kr.copilot = NoneOpt THEN NoneOpt
    ELSE Some(Copilot(Some(kr.copilot[1]), NoneOpt))

\* config.rs:73-84 with ProviderConfig::dashscope_oauth (config.rs:316-329)
legacy_dashscope(kr) ==
    IF kr.dashscope = NoneOpt THEN NoneOpt
    ELSE LET c == parse_credentials(kr.dashscope[1]) IN
         IF ~c.ok THEN NoneOpt
         ELSE Some(DashScope(Some(c.val.access_token),
                             Some(IF c.val.refresh_token = NoneOpt THEN ""
                                  ELSE c.val.refresh_token[1]),
                             c.val.resource_url,
                             Some(IF c.val.expiry_date = NoneOpt THEN 0
                                  ELSE c.val.expiry_date[1]),
                             NoneOpt))

\* config.rs:48-93: the file after the run
migrate_legacy_providers(file, key, kr) ==
    LET index == load_provider_index(file, key)
        f1 == migrate_api_key(file, key, index, "openai")
        f2 == migrate_api_key(f1, key, index, "anthropic")
        f3 == migrate_api_key(f2, key, index, "llamacpp")
        f4 == migrate_oauth(f3, key, index, "copilot", legacy_copilot(kr))
    IN migrate_oauth(f4, key, index, "dashscope", legacy_dashscope(kr))

CredsFull ==
    << <<"access_token", JStr("at-legacy")>>, <<"refresh_token", JStr("rt-legacy")>>,
       <<"resource_url", JStr("portal.qwen.ai")>>, <<"expiry_date", JNum(1234)>> >>
CredsMinimal == << <<"access_token", JStr("at-only")>> >>
CredsBroken == << <<"refresh_token", JStr("rt-legacy")>> >>
LegacyKeyrings ==
    [copilot : {NoneOpt, Some("gho_legacy")},
     dashscope : {NoneOpt, Some(CredsFull), Some(CredsMinimal), Some(CredsBroken)}]

MigIndexes == {<<>>, <<"copilot">>, <<"openai", "dashscope">>, <<"my-profile">>}
MigProviders ==
    {EmptyMap,
     [p \in {"openai", "copilot"} |->
         IF p = "openai" THEN to_json(CfgOpenAi) ELSE to_json(CfgCopilotPending)],
     [p \in {"anthropic", "llamacpp", "dashscope"} |->
         CASE p = "anthropic" -> << <<"api_key", JStr("sk-ant")>> >>
           [] p = "llamacpp" -> to_json(CfgLlamaCpp)
           [] OTHER -> to_json(CfgDashScope)]}
MigStores ==
    {[EmptyStore EXCEPT !.provider_index = i, !.providers = ps] :
        i \in MigIndexes, ps \in MigProviders}

InitMigrate ==
    /\ StoreFresh \/ \E d \in MigStores : StoreHolding(d)
    /\ legacy_keyring \in LegacyKeyrings
    /\ mig_runs = <<Stored(store_file, keyring_key)>>
    /\ MainIdle /\ PrepIdle /\ RefreshIdle /\ LateIdle
    /\ StreamIdle /\ UsageIdle /\ TokenIdle /\ FlowIdle
    /\ RetryIdle /\ ThreadsIdle /\ RegIdle /\ RouteIdle /\ MetricsIdle

\* config.rs:48-93, one whole run
MigrateLegacyProviders ==
    /\ Len(mig_runs) <= MaxMigrations
    /\ LET key == get_or_create_key(keyring_key, keys_made)
           file == migrate_legacy_providers(store_file, key, legacy_keyring)
       IN /\ store_file' = file
          /\ keyring_key' = Some(key)
          /\ keys_made' = KeysMadeAfter(keyring_key, keys_made)
          /\ mig_runs' = Append(mig_runs, load(file, key).val)
    /\ UNCHANGED legacy_keyring
    /\ UNCHANGED <<mainVars, prepVars, refreshVars, lateVars>>
    /\ UNCHANGED <<streamVars, usageVars, tokenVars, flowVars>>
    /\ UNCHANGED <<retryVars, threadVars, regVars, routeVars, metricsVars>>

NextMigrate == MigrateLegacyProviders

SpecMigrate == InitMigrate /\ [][NextMigrate]_vars

Occurrences(seq, x) == Cardinality({i \in 1..Len(seq) : seq[i] = x})

\* C23: a second (and any later) run of migrate_legacy_providers leaves the
\* StoreData as the first run left it, and a legacy id that was in
\* provider_index before the first run is never added again and its
\* providers entry is never written.
C23_MigrationIdempotent ==
    /\ \A k \in 3..Len(mig_runs) : mig_runs[k] = mig_runs[2]
    /\ \A k \in 2..Len(mig_runs) : \A id \in LegacyIds :
          InSeq(mig_runs[1].provider_index, id) =>
             /\ Occurrences(mig_runs[k].provider_index, id) =
                   Occurrences(mig_runs[1].provider_index, id)
             /\ (id \in DOMAIN mig_runs[k].providers) = (id \in DOMAIN mig_runs[1].providers)
             /\ id \in DOMAIN mig_runs[1].providers =>
                   mig_runs[k].providers[id] = mig_runs[1].providers[id]

C23_Witness ==
    /\ Len(mig_runs) >= 3
    /\ mig_runs[1].provider_index = <<"openai", "dashscope">>
    /\ legacy_keyring.dashscope = Some(CredsFull)
    /\ InSeq(mig_runs[2].provider_index, "copilot")
    /\ InSeq(mig_runs[2].provider_index, "llamacpp")
    /\ mig_runs[2] # mig_runs[1]

(***************************************************************************)
(* The service process on Unix (main.rs:212-259): main, the two signal     *)
(* tasks it spawns, and run_service's wait loop.                           *)
(***************************************************************************)
MaxSignals == 2
Exited(code) == Some([code |-> code])
KilledBy(s) == Some([killed_by |-> s])
Running == exit_status = NoneOpt
InWaitLoop(pc) == pc \in {"test", "sleep"}
Step(name) == main_trace' = Append(main_trace, name)

InitMain ==
    /\ main_pc = "start"
    /\ shutdown_flag = FALSE
    /\ sig_tasks = [s \in Signals |-> "none"]
    /\ signals_sent = <<>>
    /\ exit_status = NoneOpt
    /\ main_trace = <<>>
    /\ MigIdle /\ PrepIdle /\ RefreshIdle /\ LateIdle
    /\ StreamIdle /\ UsageIdle /\ TokenIdle /\ FlowIdle
    /\ StoreFresh /\ RetryIdle /\ ThreadsIdle /\ RegIdle /\ RouteIdle /\ MetricsIdle

MainFrame ==
    /\ UNCHANGED <<migVars, prepVars, refreshVars, lateVars>>
    /\ UNCHANGED <<streamVars, usageVars, tokenVars, flowVars>>
    /\ UNCHANGED <<retryVars, storeVars, threadVars, regVars, routeVars, metricsVars>>

\* main.rs:215  init_logging()
InitLogging ==
    /\ Running /\ main_pc = "start"
    /\ main_pc' = "logged"
    /\ Step("init_logging")
    /\ UNCHANGED <<shutdown_flag, sig_tasks, signals_sent, exit_status>>
    /\ MainFrame

\* main.rs:218-248: Shutdown::new() (flag false), then the two tokio::spawn
\* calls; the tasks run concurrently with main from here on
SpawnSignalTasks ==
    /\ Running /\ main_pc = "logged"
    /\ main_pc' = "spawned"
    /\ shutdown_flag' = FALSE
    /\ sig_tasks' = [s \in Signals |-> "spawned"]
    /\ Step("spawn_signal_tasks")
    /\ UNCHANGED <<signals_sent, exit_status>>
    /\ MainFrame

\* main.rs:251 and 96-97: run_service is entered
RunService ==
    /\ Running /\ main_pc = "spawned"
    /\ main_pc' = "test"
    /\ Step("run_service")
    /\ UNCHANGED <<shutdown_flag, sig_tasks, signals_sent, exit_status>>
    /\ MainFrame

\* main.rs:103  while !shutdown.is_requested()
LoopTest ==
    /\ Running /\ main_pc = "test"
    /\ main_pc' = IF shutdown_flag THEN "leave" ELSE "sleep"
    /\ UNCHANGED <<shutdown_flag, sig_tasks, signals_sent, exit_status, main_trace>>
    /\ MainFrame

\* main.rs:104  the one-second sleep ends
Wake ==
    /\ Running /\ main_pc = "sleep"
    /\ main_pc' = "test"
    /\ UNCHANGED <<shutdown_flag, sig_tasks, signals_sent, exit_status, main_trace>>
    /\ MainFrame

\* main.rs:107-108 and 253-256: run_service returns Ok, main returns Ok
MainReturn ==
    /\ Running /\ main_pc = "leave"
    /\ main_pc' = "exited"
    /\ exit_status' = Exited(0)
    /\ Step("return_ok")
    /\ UNCHANGED <<shutdown_flag, sig_tasks, signals_sent>>
    /\ MainFrame

\* main.rs:225 and 242-243: the task's first poll installs the handler of its
\* signal, or fails to (the Err arm of line 230, the ? of line 242)
TaskRegister(s) ==
    /\ Running /\ sig_tasks[s] = "spawned"
    /\ \E r \in {"waiting", "failed"} : sig_tasks' = [sig_tasks EXCEPT ![s] = r]
    /\ UNCHANGED <<main_pc, shutdown_flag, signals_sent, exit_status, main_trace>>
    /\ MainFrame

\* main.rs:226-229 and 243-245: the woken task calls request()
\* (main.rs:59-61), the only store to the flag after its creation
TaskRequest(s) ==
    /\ Running /\ sig_tasks[s] = "woken"
    /\ sig_tasks' = [sig_tasks EXCEPT ![s] = "done"]
    /\ shutdown_flag' = TRUE
    /\ UNCHANGED <<main_pc, signals_sent, exit_status, main_trace>>
    /\ MainFrame

\* a signal reaches the process: with the handler installed the waiting task
\* is woken (a later signal finds the handler still installed and is
\* absorbed); without it the default disposition terminates the process
Deliver(s) ==
    /\ Running /\ main_pc # "idle"
    /\ Len(signals_sent) < MaxSignals
    /\ signals_sent' = Append(signals_sent, [sig |-> s, at |-> main_pc,
                                             handler |-> sig_tasks[s]])
    /\ CASE sig_tasks[s] = "waiting" ->
              /\ sig_tasks' = [sig_tasks EXCEPT ![s] = "woken"]
              /\ UNCHANGED <<main_pc, exit_status>>
         [] sig_tasks[s] \in {"woken", "done"} ->
              UNCHANGED <<main_pc, exit_status, sig_tasks>>
         [] OTHER ->
              /\ exit_status' = KilledBy(s)
              /\ main_pc' = "exited"
              /\ UNCHANGED sig_tasks
    /\ UNCHANGED <<shutdown_flag, main_trace>>
    /\ MainFrame

NextMain ==
    \/ InitLogging
    \/ SpawnSignalTasks
    \/ RunService
    \/ LoopTest
    \/ Wake
    \/ MainReturn
    \/ \E s \in Signals : TaskRegister(s)
    \/ \E s \in Signals : TaskRequest(s)
    \/ \E s \in Signals : Deliver(s)

SpecMain == InitMain /\ [][NextMain]_vars

\* C24: once SIGINT or SIGTERM has been delivered to the service in its
\* wait loop, the shutdown flag is set and stays set, and the process ends
\* by run_service returning Ok, with exit status 0.
C24_SignalEndsInExitZero ==
    (~Running /\ \E i \in 1..Len(signals_sent) : InWaitLoop(signals_sent[i].at))
        => shutdown_flag /\ exit_status = Exited(0)

\* C25: when main enters run_service's wait loop, it has initialised
\* logging and, after that, run the legacy migration.
C25_MigrationBeforeWaitLoop ==
    InSeq(main_trace, "run_service") =>
        \E i, j, k \in 1..Len(main_trace) :
            /\ i < j /\ j < k
            /\ main_trace[i] = "init_logging"
            /\ main_trace[j] = "migrate_legacy_providers"
            /\ main_trace[k] = "run_service"

(***************************************************************************)
(* AnthropicProvider::prepare_request (anthropic.rs:71-117).               *)
(***************************************************************************)
MaxMessages == 3
\* anthropic.rs:105
AnthropicDefaultMaxTokens == 4096
Roles == {"system", "user", "assistant", "tool"}
ChatMessages == [role : Roles, content : {"a", "b"}]

\* anthropic.rs:75-84: one turn of the loop over request.messages
RECURSIVE prepare_loop_first_system(_, _, _)
prepare_loop_first_system(msgs, system, messages) ==
    IF msgs = <<>> THEN [system |-> system, messages |-> messages]
    ELSE LET msg == Head(msgs) IN
         IF msg.role = "system"
         THEN prepare_loop_first_system(Tail(msgs),
                  IF system = NoneOpt THEN Some(msg.content) ELSE system, messages)
         ELSE IF msg.role = "user" \/ msg.role = "assistant"
         THEN prepare_loop_first_system(Tail(msgs), system,
                  Append(messages, [role |-> msg.role, content |-> msg.content]))
         ELSE prepare_loop_first_system(Tail(msgs), system, messages)

RECURSIVE prepare_loop(_, _, _)
prepare_loop(msgs, system, messages) ==
    IF msgs = <<>> THEN [system |-> system, messages |-> messages]
    ELSE LET msg == Head(msgs) IN
         IF msg.role = "system"
         THEN prepare_loop(Tail(msgs), Some(msg.content), messages)
         ELSE IF msg.role = "user" \/ msg.role = "assistant"
         THEN prepare_loop(Tail(msgs), system,
                  Append(messages, [role |-> msg.role, content |-> msg.content]))
         ELSE prepare_loop(Tail(msgs), system, messages)

\* anthropic.rs:71-86
prepare_messages(request) == prepare_loop(request.messages, NoneOpt, <<>>)

MessageJson(m) == JObj(<< <<"role", JStr(m.role)>>, <<"content", JStr(m.content)>> >>)

\* anthropic.rs:89-117: the members of the body
prepare_request(request, stream) ==
    LET pm == prepare_messages(request) IN
    << <<"model", JStr(request.model)>>,
       <<"messages", JArr([i \in 1..Len(pm.messages) |-> MessageJson(pm.messages[i])])>>,
       <<"stream", [t |-> "bool", b |-> stream]>>,
       <<"max_tokens", JNum(IF request.max_tokens # NoneOpt THEN request.max_tokens[1]
                            ELSE AnthropicDefaultMaxTokens)>> >>
    \o (IF request.temperature # NoneOpt
        THEN << <<"temperature", JNum(request.temperature[1])>> >> ELSE <<>>)
    \o (IF pm.system # NoneOpt THEN << <<"system", JStr(pm.system[1])>> >> ELSE <<>>)

MessageLists == UNION {[1..n -> ChatMessages] : n \in 0..MaxMessages}

InitPrepare ==
    /\ prep_request \in [model : {"claude-3"}, messages : MessageLists,
                         max_tokens : {NoneOpt, Some(0), Some(100)},
                         temperature : {NoneOpt, Some(1)}]
    /\ prep_body = NoneOpt
    /\ MigIdle /\ MainIdle /\ RefreshIdle /\ LateIdle
    /\ StreamIdle /\ UsageIdle /\ TokenIdle /\ FlowIdle
    /\ StoreFresh /\ RetryIdle /\ ThreadsIdle /\ RegIdle /\ RouteIdle /\ MetricsIdle

\* anthropic.rs:89-117, called by complete (stream false) and complete_stream
PrepareRequest(stream) ==
    /\ prep_body = NoneOpt
    /\ prep_body' = Some(prepare_request(prep_request, stream))
    /\ UNCHANGED prep_request
    /\ UNCHANGED <<migVars, mainVars, refreshVars, lateVars>>
    /\ UNCHANGED <<streamVars, usageVars, tokenVars, flowVars>>
    /\ UNCHANGED <<retryVars, storeVars, threadVars, regVars, routeVars, metricsVars>>

NextPrepare == \E stream \in BOOLEAN : PrepareRequest(stream)

SpecPrepare == InitPrepare /\ [][NextPrepare]_vars

SystemIndexes(msgs) == {i \in 1..Len(msgs) : msgs[i].role = "system"}
Conversation(msgs) == SelectSeq(msgs, LAMBDA m : m.role \in {"user", "assistant"})

\* C26: the body's system member is the content of the last input message
\* with role system and is absent when there is none; its messages are the
\* input messages with role user or assistant, in input order, and no
\* others; max_tokens is the request's value, or 4096 when it has none.
C26_AnthropicBody ==
    prep_body # NoneOpt =>
        LET b == prep_body[1]
            msgs == prep_request.messages
            sys == SystemIndexes(msgs)
            conv == Conversation(msgs)
        IN /\ HasKey(b, "system") = (sys # {})
           /\ sys # {} =>
                 Get(b, "system") =
                    JStr(msgs[CHOOSE i \in sys : \A j \in sys : j <= i].content)
           /\ Get(b, "messages") =
                 JArr([i \in 1..Len(conv) |-> MessageJson(conv[i])])
           /\ Get(b, "max_tokens") =
                 JNum(IF prep_request.max_tokens = NoneOpt THEN 4096
                      ELSE prep_request.max_tokens[1])

C26_Witness ==
    /\ prep_body # NoneOpt
    /\ Len(prep_request.messages) = 3
    /\ prep_request.messages[1] = [role |-> "system", content |-> "a"]
    /\ prep_request.messages[2] = [role |-> "tool", content |-> "a"]
    /\ prep_request.messages[3] = [role |-> "system", content |-> "b"]
    /\ prep_request.max_tokens = NoneOpt
    /\ Get(prep_body[1], "system") = JStr("b")
    /\ Get(prep_body[1], "messages") = JArr(<<>>)

\* C27: the k-th sleep of with_retry comes after the k-th failed invocation
\* and before the next one; the first lasts initial_backoff and each later
\* one min(previous * multiplier, max_backoff); no sleep follows a success
\* or the invocation whose error is returned.
C27_SleepsFollowBackoff ==
    /\ Len(sleeps) >= 1 => sleeps[1] = config.initial_backoff
    /\ \A k \in 1..(Len(sleeps) - 1) :
          sleeps[k + 1] = Min(sleeps[k] * config.multiplier, config.max_backoff)
    /\ \A k \in 1..Len(sleeps) : ~outcomes[k].ok
    /\ retry_pc = "call" => Len(sleeps) = Len(outcomes)
    /\ retry_pc \in {"sleep", "done"} => Len(sleeps) = Len(outcomes) - 1

C27_Witness ==
    /\ retry_pc = "done" /\ ~result.ok
    /\ config.max_backoff = SmallMaxBackoffMs
    /\ Len(sleeps) = 3 /\ Len(outcomes) = 4
    /\ sleeps[3] = config.max_backoff
    /\ sleeps[2] < sleeps[3]

\* C28: a chat operation holds the token lock while it tests the cache; it
\* sends an exchange request iff the cache was empty or held a token with
\* expires_at <= now + 60, and otherwise returns the cached token with no
\* exchange, so no returned cached token has expires_at <= now + 60.
C28_ExchangeIffStale ==
    /\ \A t \in Threads : ck_pc[t] \in {"locked", "exchange"} => token_lock = t
    /\ \A t \in Threads : ck_ret[t].checked =>
          LET r == ck_ret[t]
              stale == r.seen = NoneOpt \/ r.seen[1].expires_at <= r.checked_at + 60
          IN /\ r.exchanged <=> stale
             /\ ~r.exchanged =>
                   /\ r.returned /\ r.ok
                   /\ r.token = r.seen[1].token
    /\ Len(exchanges) + Cardinality({t \in Threads : ck_pc[t] = "exchange"})
          = Cardinality({t \in Threads : ck_ret[t].exchanged})

C28_Witness ==
    \E t, u \in Threads :
        /\ ck_ret[t].exchanged /\ ck_ret[t].seen # NoneOpt
        /\ ck_ret[t].seen[1].expires_at > ck_ret[t].checked_at
        /\ ck_ret[u].returned /\ ~ck_ret[u].exchanged
        /\ ck_ret[u].seen # NoneOpt /\ ck_ret[u].token = ck_ret[u].seen[1].token
        /\ ck_ret[u].checked_at > 0

CarriesToken(f, r) ==
    r.access_token # NoneOpt /\ (f = "qwen" => r.access_token[1] # "")
AnswersPending(f, r) ==
    /\ ~CarriesToken(f, r)
    /\ \/ r.error = Some("authorization_pending")
       \/ f = "qwen" /\ r.error = NoneOpt /\ r.status = Some("pending")
AnswersError(f, r) ==
    /\ ~CarriesToken(f, r)
    /\ r.error # NoneOpt
    /\ r.error[1] \notin {"authorization_pending", "slow_down"}

DefaultExpiresInSecs == 3600
OAuthCredentials(access_token, refresh_token, resource_url, expiry_date) ==
    [access_token |-> access_token, refresh_token |-> refresh_token,
     resource_url |-> resource_url, expiry_date |-> expiry_date]
CredentialSamples ==
    { OAuthCredentials("at-old", rt, ru, Some(1000)) :
        rt \in {NoneOpt, Some("rt-old")}, ru \in {NoneOpt, Some("old.example")} }

\* the token endpoint's answer: no answer at all, or a status with a body that
\* is the TokenResponse of dashscope.rs:201-209 or does not parse as one
TokenBodies ==
    [access_token : {NoneOpt, Some(""), Some("at-new")},
     refresh_token : {NoneOpt, Some("rt-new")},
     resource_url : {NoneOpt, Some("new.example")},
     expires_in : {NoneOpt, Some(7200)}]
EndpointAnswers ==
    {[kind |-> "unreachable"]}
    \cup {[kind |-> "garbage", status |-> 200]}
    \cup [kind : {"json"}, status : {200, 400, 500}, body : TokenBodies]

\* StatusCode::is_success
is_success(status) == status >= 200 /\ status < 300

RefreshErr(msg, sent) == [ok |-> FALSE, err |-> msg, sent |-> sent]
RefreshOk(c) == [ok |-> TRUE, val |-> c, sent |-> 1]

refresh_drops_prior(c, answer, t) ==
    IF c.refresh_token = NoneOpt THEN RefreshErr("no refresh token available", 0)
    ELSE IF answer.kind = "unreachable" THEN RefreshErr("send", 1)
    ELSE IF ~is_success(answer.status) THEN RefreshErr("http", 1)
    ELSE IF answer.kind = "garbage" THEN RefreshErr("json", 1)
    ELSE LET tok == answer.body IN
         IF tok.access_token = NoneOpt \/ tok.access_token[1] = ""
         THEN RefreshErr("token refresh returned no access_token", 1)
         ELSE RefreshOk(OAuthCredentials(
                  tok.access_token[1], tok.refresh_token, tok.resource_url,
                  Some(t + (IF tok.expires_in = NoneOpt THEN DefaultExpiresInSecs
                            ELSE tok.expires_in[1]) * 1000)))

\* dashscope.rs:396-448; sent counts the requests that left
refresh(c, answer, t) ==
    IF c.refresh_token = NoneOpt THEN RefreshErr("no refresh token available", 0)
    ELSE IF answer.kind = "unreachable" THEN RefreshErr("send", 1)
    ELSE IF ~is_success(answer.status) THEN RefreshErr("http", 1)
    ELSE IF answer.kind = "garbage" THEN RefreshErr("json", 1)
    ELSE LET tok == answer.body IN
         IF tok.access_token = NoneOpt \/ tok.access_token[1] = ""
         THEN RefreshErr("token refresh returned no access_token", 1)
         ELSE RefreshOk(OAuthCredentials(
                  tok.access_token[1],
                  IF tok.refresh_token # NoneOpt THEN tok.refresh_token
                  ELSE c.refresh_token,
                  IF tok.resource_url # NoneOpt THEN tok.resource_url
                  ELSE c.resource_url,
                  Some(t + (IF tok.expires_in = NoneOpt THEN DefaultExpiresInSecs
                            ELSE tok.expires_in[1]) * 1000)))

InitRefresh ==
    /\ credentials \in CredentialSamples
    /\ token_endpoint \in EndpointAnswers
    /\ refresh_now \in {0, 5000}
    /\ refresh_sent = 0
    /\ refresh_ret = NoneOpt
    /\ MigIdle /\ MainIdle /\ PrepIdle /\ LateIdle
    /\ StreamIdle /\ UsageIdle /\ TokenIdle /\ FlowIdle
    /\ StoreFresh /\ RetryIdle /\ ThreadsIdle /\ RegIdle /\ RouteIdle /\ MetricsIdle

\* dashscope.rs:396-448: the call takes the credentials by shared reference
Refresh ==
    /\ refresh_ret = NoneOpt
    /\ LET r == refresh(credentials, token_endpoint, refresh_now) IN
          /\ refresh_ret' = Some([ret |-> r, given |-> credentials])
          /\ refresh_sent' = refresh_sent + r.sent
    /\ UNCHANGED <<credentials, token_endpoint, refresh_now>>
    /\ UNCHANGED <<migVars, mainVars, prepVars, lateVars>>
    /\ UNCHANGED <<streamVars, usageVars, tokenVars, flowVars>>
    /\ UNCHANGED <<retryVars, storeVars, threadVars, regVars, routeVars, metricsVars>>

NextRefresh == Refresh

SpecRefresh == InitRefresh /\ [][NextRefresh]_vars

GoodResponse(answer) ==
    /\ answer.kind = "json" /\ is_success(answer.status)
    /\ answer.body.access_token # NoneOpt /\ answer.body.access_token[1] # ""
BadResponse(answer) ==
    answer.kind = "json" /\
    (~is_success(answer.status) \/ answer.body.access_token = NoneOpt)

\* C30: refresh fails without sending a request when the credentials have no
\* refresh_token; on a successful token response it returns credentials with
\* the response's access_token and an expiry of now plus the response's
\* expires_in, and with the response's refresh_token and resource_url or,
\* where the response omits one, the prior value; on a non-success status or
\* a response without access_token it returns an error; the caller's
\* credentials are as they were.
C30_RefreshKeepsPrior ==
    refresh_ret # NoneOpt =>
        LET r == refresh_ret[1].ret
            a == token_endpoint
        IN /\ credentials = refresh_ret[1].given
           /\ credentials.refresh_token = NoneOpt => ~r.ok /\ refresh_sent = 0
           /\ (credentials.refresh_token # NoneOpt /\ BadResponse(a)) => ~r.ok
           /\ (credentials.refresh_token # NoneOpt /\ GoodResponse(a)) =>
                 /\ r.ok /\ refresh_sent = 1
                 /\ r.val.access_token = a.body.access_token[1]
                 /\ r.val.expiry_date # NoneOpt
                 /\ r.val.expiry_date[1] > refresh_now
                 /\ a.body.expires_in # NoneOpt =>
                       r.val.expiry_date[1] = refresh_now + a.body.expires_in[1] * 1000
                 /\ r.val.refresh_token =
                       (IF a.body.refresh_token = NoneOpt THEN credentials.refresh_token
                        ELSE a.body.refresh_token)
                 /\ r.val.resource_url =
                       (IF a.body.resource_url = NoneOpt THEN credentials.resource_url
                        ELSE a.body.resource_url)
           /\ r.ok => GoodResponse(a)

C30_Witness ==
    /\ refresh_ret # NoneOpt /\ refresh_ret[1].ret.ok
    /\ token_endpoint.body.refresh_token = NoneOpt
    /\ token_endpoint.body.resource_url # NoneOpt
    /\ refresh_ret[1].ret.val.refresh_token = Some("rt-old")
    /\ refresh_ret[1].ret.val.resource_url = Some("new.example")
    /\ refresh_ret[1].ret.val.access_token = "at-new"

(***************************************************************************)
(* LlamaCppProvider::health_check (llamacpp.rs:160-178) against a server   *)
(* whose two endpoints each refuse the connection or answer with a status. *)
(***************************************************************************)
EndpointStates == {"refused", "200", "204", "401", "404", "429", "500", "503"}
Is2xx(a) == a \in {"200", "204"}

\* llamacpp.rs:160-178: the paths requested and the value returned. The Ok
\* arm with a non-2xx status falls through to Ok(false); only the Err arm
\* asks /v1/models
health_check(server) ==
    IF server.health # "refused"
    THEN [sent |-> <<"/health">>, ret |-> Is2xx(server.health)]
    ELSE [sent |-> <<"/health", "/v1/models">>,
          ret |-> server.models # "refused" /\ Is2xx(server.models)]

InitHealth ==
    /\ health_server \in [health : EndpointStates, models : EndpointStates]
    /\ health_sent = <<>>
    /\ health_ret = NoneOpt
    /\ MigIdle /\ MainIdle /\ PrepIdle /\ RefreshIdle /\ FailoverIdle /\ ToggleIdle
    /\ StreamIdle /\ UsageIdle /\ TokenIdle /\ FlowIdle
    /\ StoreFresh /\ RetryIdle /\ ThreadsIdle /\ RegIdle /\ RouteIdle /\ MetricsIdle

LateFrame ==
    /\ UNCHANGED <<migVars, mainVars, prepVars, refreshVars>>
    /\ UNCHANGED <<streamVars, usageVars, tokenVars, flowVars>>
    /\ UNCHANGED <<retryVars, threadVars, regVars, metricsVars>>

\* llamacpp.rs:160-178
HealthCheck ==
    /\ health_ret = NoneOpt
    /\ LET r == health_check(health_server) IN
          /\ health_sent' = r.sent
          /\ health_ret' = Some(r.ret)
    /\ UNCHANGED health_server
    /\ UNCHANGED <<failoverVars, toggleVars, storeVars, routeVars>>
    /\ LateFrame

\* the server comes up or goes down between calls
ServerChanges(a) ==
    /\ health_ret # NoneOpt
    /\ health_server' = a
    /\ health_sent' = <<>>
    /\ health_ret' = NoneOpt
    /\ UNCHANGED <<failoverVars, toggleVars, storeVars, routeVars>>
    /\ LateFrame

NextHealth ==
    \/ HealthCheck
    \/ \E a \in [health : EndpointStates, models : EndpointStates] : ServerChanges(a)

SpecHealth == InitHealth /\ [][NextHealth]_vars

\* C31: health_check reports healthy on a 2xx from /health; when /health
\* answers another status or the connection fails it asks /v1/models and
\* reports healthy iff that answers 2xx.
C31_HealthFallsBack ==
    health_ret # NoneOpt =>
        IF Is2xx(health_server.health)
        THEN health_ret = Some(TRUE)
        ELSE /\ health_sent = <<"/health", "/v1/models">>
             /\ health_ret = Some(Is2xx(health_server.models))

(***************************************************************************)
(* update_provider_metadata (config.rs:470-504), called by one caller at   *)
(* a time on a store that holds profiles of every kind.                    *)
(***************************************************************************)
\* HashMap::extend: the entries of m2 are put into m1
Extend(m1, m2) ==
    [k \in DOMAIN m1 \cup DOMAIN m2 |-> IF k \in DOMAIN m2 THEN m2[k] ELSE m1[k]]

set_base_url_any(cfg, base_url) ==
    IF "base_url" \in DOMAIN cfg
    THEN [cfg EXCEPT !.base_url = Some(base_url)]
    ELSE cfg

\* cfg.rs:478-489  the match on the variant
set_base_url(cfg, base_url) ==
    IF cfg.variant \in {"OpenAi", "Anthropic"}
    THEN [cfg EXCEPT !.base_url = Some(base_url)]
    ELSE cfg

\* cfg.rs:477-491  the file after the base_url step
metadata_base_url(file, key, p, cfg, new_base_url) ==
    IF new_base_url = NoneOpt THEN file
    ELSE UpdateBytes(file, key, InsertProvider(p, to_json(set_base_url(cfg, new_base_url[1]))))

\* cfg.rs:494-501  the file after the display-name step
metadata_name(file, key, p, new_name) ==
    IF new_name = NoneOpt THEN file
    ELSE LET data == load(file, key).val
             names == MapPut(data.display_names, p, new_name[1])
             d == load(file, key).val
         IN Seal([d EXCEPT !.display_names = Extend(@, names)], key)

\* cfg.rs:470-504  the result and the file left behind
update_provider_metadata(file, key, p, new_name, new_base_url) ==
    LET cfg == load_provider_config(load(file, key).val, p) IN
    IF ~cfg.ok THEN [ok |-> FALSE, file |-> file]
    ELSE [ok |-> TRUE,
          file |-> metadata_name(
                       metadata_base_url(file, key, p, cfg.val, new_base_url),
                       key, p, new_name)]

NewNames == {NoneOpt, Some("Work"), Some("Home")}
NewBaseUrls == {NoneOpt, Some("https://proxy.example/v1")}

StoreMeta ==
    [provider_index |-> <<"p1", "p2">>,
     providers |-> [p \in {"p1", "p2"} |->
                      IF p = "p1" THEN to_json(CfgAnthropic) ELSE to_json(CfgCopilotPending)],
     display_names |-> [p \in {"p2"} |-> "Copilot"],
     route_rules |-> [a \in {"prod"} |-> rule_to_json(RuleProd)],
     enabled_models |-> [p \in {"p2"} |-> <<"gpt-4">>]]

InitMetadata ==
    /\ StoreFresh \/ \E d \in StoreSamples \cup {StoreMeta} : StoreHolding(d)
    /\ RegIdle
    /\ RetryIdle /\ ThreadsIdle /\ RouteIdle
    /\ MetricsIdle /\ AdaptersIdle

\* config.rs:470-504
UpdateProviderMetadata(p, new_name, new_base_url) ==
    LET key == get_or_create_key(keyring_key, keys_made)
        r == update_provider_metadata(store_file, key, p, new_name, new_base_url)
    IN /\ load(store_file, key).ok
       /\ keyring_key' = Some(key)
       /\ keys_made' = KeysMadeAfter(keyring_key, keys_made)
       /\ store_file' = r.file
       /\ reg_call' = [fn |-> "update_provider_metadata", id |-> p,
                       name |-> new_name, base_url |-> new_base_url,
                       before |-> Stored(store_file, keyring_key), ok |-> r.ok]
       /\ UNCHANGED <<reg_expect, reg_owed, paired>>
       /\ UNCHANGED <<retryVars, threadVars, routeVars, metricsVars, adapterVars>>

NextMetadata ==
    \E p \in ProfileIds, n \in NewNames, u \in NewBaseUrls :
        UpdateProviderMetadata(p, n, u)

SpecMetadata == InitMetadata /\ [][NextMetadata]_vars

StoredNow == Stored(store_file, keyring_key)
SameAt(m1, m2, k) ==
    /\ k \in DOMAIN m1 <=> k \in DOMAIN m2
    /\ k \in DOMAIN m1 => m1[k] = m2[k]
SameExceptAt(m1, m2, k) ==
    /\ DOMAIN m1 \ {k} = DOMAIN m2 \ {k}
    /\ \A q \in DOMAIN m1 \ {k} : m1[q] = m2[q]

\* C32: update_provider_metadata changes only the display name of its
\* profile (when a name is given) and the base_url of its stored profile
\* (when a base_url is given and the profile is OpenAI-compatible or
\* Anthropic); the variant, the credentials, every other profile and display
\* name, provider_index, route_rules and enabled_models stay as they were,
\* and for a profile that is not stored it fails and changes nothing.
C32_MetadataOnly ==
    reg_call.fn = "update_provider_metadata" =>
        LET b == reg_call.before
            a == StoredNow
            p == reg_call.id
        IN IF ~reg_call.ok
           THEN a = b /\ ~load_provider_config(b, p).ok
           ELSE /\ p \in DOMAIN b.providers /\ p \in DOMAIN a.providers
                /\ a.provider_index = b.provider_index
                /\ a.route_rules = b.route_rules
                /\ a.enabled_models = b.enabled_models
                /\ SameExceptAt(a.providers, b.providers, p)
                /\ SameExceptAt(a.display_names, b.display_names, p)
                /\ IF reg_call.name # NoneOpt
                   THEN p \in DOMAIN a.display_names
                        /\ a.display_names[p] = reg_call.name[1]
                   ELSE SameAt(a.display_names, b.display_names, p)
                /\ LET old == from_json(b.providers[p]).val
                       new == from_json(a.providers[p])
                   IN /\ new.ok
                      /\ IF reg_call.base_url # NoneOpt
                            /\ old.variant \in {"OpenAi", "Anthropic"}
                         THEN new.val = [old EXCEPT !.base_url = reg_call.base_url]
                         ELSE new.val = old

\* a DashScope profile, which has a base_url member of its own, went through
\* a call that gave both a name and a base_url, and an absent profile
\* through a failing call before
C32_Witness ==
    /\ reg_call.fn = "update_provider_metadata"
    /\ reg_call.ok
    /\ reg_call.id = "p2"
    /\ reg_call.name = Some("Work")
    /\ reg_call.base_url # NoneOpt
    /\ from_json(reg_call.before.providers["p2"]).val = CfgDashScope
    /\ "p1" \in DOMAIN StoredNow.providers
    /\ from_json(StoredNow.providers["p1"]).val =
           OpenAi("sk-test", Some("https://proxy.example/v1"))
    /\ StoredNow.display_names["p1"] = "Home"

(***************************************************************************)
(* get_next_target on a rule that lists one provider twice.                *)
(***************************************************************************)
\* the indexes of the targets of rule a with provider p
EntriesOf(a, p) ==
    IF a \in DOMAIN RulesNow
    THEN {i \in 1..Len(RulesNow[a].targets) : RulesNow[a].targets[i].provider_id = p}
    ELSE {}
AskedTwice == Cardinality(EntriesOf(route_call.alias, route_call.provider)) >= 2

Polled == Len(poll_answers') = Len(poll_answers) + 1
IsSlowDown(r) == r.access_token = NoneOpt /\ r.error = Some("slow_down")
AdvisedOrDefault(r) == IF r.interval # NoneOpt THEN r.interval[1] ELSE SlowDownSecs

\* C34: in the Copilot and in the Qwen flow a slow_down answer raises the
\* delay between polls by the interval the server advises (by 5 seconds when
\* it advises none); the delay never decreases and no other answer changes it.
C34_SlowDownRaisesDelay ==
    [][/\ delay' >= delay
       /\ Polled =>
             LET r == poll_answers'[Len(poll_answers')] IN
             IF IsSlowDown(r)
             THEN delay' = delay + AdvisedOrDefault(r)
             ELSE delay' = delay]_vars

(***************************************************************************)
(* The ROUTE_DATA lock across a mutating call.                             *)
(***************************************************************************)
RouteMutations == {"set_route_rules", "delete_route_rules", "toggle_model"}

\* C35: after init(), a call of set_route_rules, delete_route_rules,
\* save_enabled_models or toggle_model returns Ok or Err, and the lock it
\* took for the mutation and again in persist() is free afterwards, so that
\* neither the caller nor another thread using the router stays blocked.
C35_MutationsReturn ==
    (route_call.fn \in RouteMutations /\ route_data # NoneOpt) =>
        /\ route_call.ret.kind \in {"ok", "err"}
        /\ route_lock = "free"

(***************************************************************************)
(* A caller's failover loop over one alias (integration.rs:494-505):       *)
(* resolve_alias for the first target, then get_next_target with the       *)
(* provider of the target just tried, until it returns none.               *)
(***************************************************************************)
MaxFailoverSteps == 5

FoTargets == {Target("openai", "gpt-4"), Target("openai", "gpt-3.5"),
              Target("anthropic", "claude-3"), Target("dashscope", "qwen-max")}
\* the rules with one to three targets, no target listed twice
FoRules ==
    {Rule("app", ts) :
        ts \in {t \in UNION {[1..n -> FoTargets] : n \in 1..3} :
                   \A i, j \in 1..Len(t) : i # j => t[i] # t[j]}}

\* ROUTE_DATA.rules as the loop sees it
FoRulesMap == [a \in {fo_rule.alias} |-> fo_rule]

InitFailover ==
    /\ fo_rule \in FoRules
    /\ fo_pc = "resolve"
    /\ fo_tried = <<>>
    /\ MigIdle /\ MainIdle /\ PrepIdle /\ RefreshIdle /\ HealthIdle /\ ToggleIdle
    /\ StreamIdle /\ UsageIdle /\ TokenIdle /\ FlowIdle
    /\ StoreFresh /\ RetryIdle /\ ThreadsIdle /\ RegIdle /\ RouteIdle /\ MetricsIdle

\* route.rs:117-136  the first target
FoResolve ==
    /\ fo_pc = "resolve"
    /\ LET r == resolve_alias(FoRulesMap, fo_rule.alias) IN
          IF r.kind = "ok"
          THEN fo_tried' = <<r.val>> /\ fo_pc' = "next"
          ELSE fo_pc' = "done" /\ UNCHANGED fo_tried
    /\ UNCHANGED fo_rule
    /\ UNCHANGED <<healthVars, toggleVars, storeVars, routeVars>>
    /\ LateFrame

\* integration.rs:496-505  the target just tried failed: ask for the next
FoNext ==
    /\ fo_pc = "next"
    /\ Len(fo_tried) < MaxFailoverSteps
    /\ LET r == get_next_target(FoRulesMap, fo_rule.alias, fo_tried[Len(fo_tried)][1]) IN
          IF r.kind = "some"
          THEN fo_tried' = Append(fo_tried, r.val) /\ UNCHANGED fo_pc
          ELSE fo_pc' = "done" /\ UNCHANGED fo_tried
    /\ UNCHANGED fo_rule
    /\ UNCHANGED <<healthVars, toggleVars, storeVars, routeVars>>
    /\ LateFrame

NextFailover == FoResolve \/ FoNext

SpecFailover == InitFailover /\ [][NextFailover]_vars

\* C36: for a rule with targets, also one that repeats a provider_id, the
\* failover loop is handed at most as many targets as the rule has and no
\* target twice, so it reaches none without cycling.
C36_FailoverExhausts ==
    /\ Len(fo_tried) <= Len(fo_rule.targets)
    /\ \A i, j \in 1..Len(fo_tried) : i # j => fo_tried[i] # fo_tried[j]

(***************************************************************************)
(* store::load and store::update by one caller at a time, with a           *)
(* credential store whose read may fail although the entry exists.         *)
(***************************************************************************)
MaxKeys == 4

\* keyring::get_password as get_or_create_key sees it (store.rs:27): the
\* entry, or an error when there is none or the read failed
get_password(kr, read_fails) == IF read_fails THEN NoneOpt ELSE kr

InitKeyring ==
    /\ StoreFresh \/ \E d \in StoreSamples : StoreHolding(d)
    /\ ThreadsIdle
    /\ RetryIdle /\ RegIdle /\ RouteIdle
    /\ MetricsIdle /\ AdaptersIdle

\* store.rs:125-136
KeyringUpdate(m, read_fails) ==
    LET read == get_password(keyring_key, read_fails)
        key == get_or_create_key(read, keys_made)
    IN /\ KeysMadeAfter(read, keys_made) <= MaxKeys
       /\ load(store_file, key).ok
       /\ keyring_key' = Some(key)
       /\ keys_made' = KeysMadeAfter(read, keys_made)
       /\ store_file' = UpdateBytes(store_file, key, m)
       /\ UNCHANGED <<retryVars, threadVars, regVars, routeVars, metricsVars, adapterVars>>

\* store.rs:111-122
KeyringLoad(read_fails) ==
    LET read == get_password(keyring_key, read_fails)
        key == get_or_create_key(read, keys_made)
    IN /\ KeysMadeAfter(read, keys_made) <= MaxKeys
       /\ keyring_key' = Some(key)
       /\ keys_made' = KeysMadeAfter(read, keys_made)
       /\ UNCHANGED store_file
       /\ UNCHANGED <<retryVars, threadVars, regVars, routeVars, metricsVars, adapterVars>>

NextKeyring ==
    \/ \E m \in StoreMutators, f \in BOOLEAN : KeyringUpdate(m, f)
    \/ \E f \in BOOLEAN : KeyringLoad(f)

SpecKeyring == InitKeyring /\ [][NextKeyring]_vars

\* C37: once a key is in the credential store, no load() or update()
\* replaces it with another key, also when a read of the credential store
\* fails; so what an update wrote stays readable, and the next update
\* changes it only as its mutator says.
C37_KeyNeverReplaced ==
    [][keyring_key # NoneOpt =>
          /\ keyring_key' = keyring_key
          /\ \/ Stored(store_file', keyring_key') = Stored(store_file, keyring_key)
             \/ \E m \in StoreMutators :
                   Stored(store_file', keyring_key')
                      = Apply(m, Stored(store_file, keyring_key))]_vars

(***************************************************************************)
(* Memory and store after a mutating call that did not succeed.            *)
(***************************************************************************)
\* C38: when set_route_rules, delete_route_rules or save_enabled_models
\* does not come back with Ok because persisting failed, the route data in
\* memory is what it was before the call, so that memory and store agree.
C38_FailedMutationLeavesMemory ==
    (route_call.fn \in RouteMutations /\ route_data # NoneOpt
                                     /\ route_call.ret.kind # "ok") =>
        route_data[1] = RouteDataOf(Stored(store_file, keyring_key))

(***************************************************************************)
(* Two threads each call toggle_model (route.rs:193-208) on provider "p1"  *)
(* of an initialised router, for different models.                         *)
(***************************************************************************)
ToggleProvider == "p1"
ToggleCalls ==
    {c \in [Threads -> [model : ModelIds, enabled : BOOLEAN]] :
        c["t1"].model # c["t2"].model}

InitToggle ==
    /\ \E d \in StoreSamples :
          /\ StoreHolding(d)
          /\ route_data = Some(RouteDataOf(d))
    /\ route_lock = "free"
    /\ route_call = [fn |-> "init"]
    /\ tg_call \in ToggleCalls
    /\ tg_pc = [t \in Threads |-> "load"]
    /\ tg_current = [t \in Threads |-> <<>>]
    /\ MigIdle /\ MainIdle /\ PrepIdle /\ RefreshIdle /\ HealthIdle /\ FailoverIdle
    /\ StreamIdle /\ UsageIdle /\ TokenIdle /\ FlowIdle
    /\ RetryIdle /\ ThreadsIdle /\ RegIdle /\ MetricsIdle

\* what a thread that asks for the lock becomes when it cannot have it:
\* blocked behind the writer that waits for itself, or panicking in
\* unwrap() on the poisoned lock
Refused == IF route_lock = "deadlocked" THEN "blocked" ELSE "panicked"

\* route.rs:199-206  load_enabled_models and the change to the local list
ToggleLoad(t) ==
    /\ tg_pc[t] = "load"
    /\ IF route_lock = "free"
       THEN /\ tg_current' = [tg_current EXCEPT ![t] =
                                 toggle_list(route_data[1].enabled_models, ToggleProvider,
                                             tg_call[t].model, tg_call[t].enabled,
                                             AllModels)]
            /\ tg_pc' = [tg_pc EXCEPT ![t] = "save"]
       ELSE /\ tg_pc' = [tg_pc EXCEPT ![t] = Refused]
            /\ UNCHANGED tg_current
    /\ UNCHANGED <<tg_call, routeVars>>
    /\ UNCHANGED <<healthVars, failoverVars, storeVars>>
    /\ LateFrame

\* route.rs:175-182  save_enabled_models: the insert under the write guard,
\* then persist(), which asks for the read lock with the guard still alive
ToggleSave(t) ==
    /\ tg_pc[t] = "save"
    /\ IF route_lock = "free"
       THEN /\ route_data' = Some([route_data[1] EXCEPT !.enabled_models =
                                      MapPut(@, ToggleProvider, tg_current[t])])
            /\ route_lock' \in {"deadlocked", "poisoned"}
            /\ tg_pc' = [tg_pc EXCEPT ![t] =
                            IF route_lock' = "deadlocked" THEN "blocked" ELSE "panicked"]
       ELSE /\ tg_pc' = [tg_pc EXCEPT ![t] = Refused]
            /\ UNCHANGED <<route_data, route_lock>>
    /\ UNCHANGED <<tg_call, tg_current, route_call>>
    /\ UNCHANGED <<healthVars, failoverVars, storeVars>>
    /\ LateFrame

NextToggle ==
    \/ \E t \in Threads : ToggleLoad(t)
    \/ \E t \in Threads : ToggleSave(t)

SpecToggle == InitToggle /\ [][NextToggle]_vars

ToggleOver == \A t \in Threads : tg_pc[t] \notin {"load", "save"}

\* C39: two concurrent toggle_model calls for one provider and different
\* models both take effect: when both are over, both have returned and each
\* model has the state its call asked for.
C39_BothTogglesApply ==
    ToggleOver =>
        \A t \in Threads :
            /\ tg_pc[t] = "returned"
            /\ is_model_enabled(route_data[1].enabled_models, ToggleProvider,
                                tg_call[t].model) = tg_call[t].enabled

(***************************************************************************)
(* A failed exchange inside ensure_copilot_token.                          *)
(***************************************************************************)
ExchangeFailedFor(t) ==
    ck_pc[t] = "exchange" /\ ck_pc'[t] = "done" /\ ~ck_ret'[t].ok

\* C40: when the exchange inside ensure_copilot_token fails, the caller
\* gets the error, the cached token stays exactly as it was and the token
\* lock is released, so that another caller can run the exchange itself.
C40_FailedExchangeLeavesCache ==
    [][\A t \in Threads :
          ExchangeFailedFor(t) =>
              /\ ck_ret'[t].returned
              /\ cached_token' = cached_token
              /\ token_lock' = "free"]_vars

\* one caller's exchange failed over a stale cached token, and the other
\* caller then ran the exchange itself and cached its token
C40_Witness ==
    \E t, u \in Threads :
        /\ t # u
        /\ ck_ret[t].returned /\ ck_ret[t].exchanged /\ ~ck_ret[t].ok
        /\ ck_ret[t].seen = Some(CachedToken(0, 30))
        /\ ck_ret[u].returned /\ ck_ret[u].exchanged /\ ck_ret[u].ok
        /\ ck_ret[u].seen = Some(CachedToken(0, 30))
        /\ Len(exchanges) = 2
        /\ ~exchanges[1].ok /\ exchanges[2].ok
        /\ cached_token = Some(CachedToken(exchanges[2].token, exchanges[2].expires_at))
        /\ token_lock = "free"

=============================================================================
